---- MODULE Spec2Model ----
(***************************************************************************)
(* The agent of jasonkneen/ai-agent: the conversation turn of              *)
(* Agent.Process (agent package, in src/run.sh), the Gateway of            *)
(* llm.Client.Query (src/llm/llm.go) and the tools of the tools package    *)
(* (in src/README.md), with the line-addressed edit of                     *)
(* FileEditTool.Execute.                                                   *)
(*                                                                         *)
(* A Go string is modelled as the sequence of its bytes, each byte a       *)
(* one-character TLA+ string, so that searching, splitting, slicing and    *)
(* formatting are computed as the code computes them.                      *)
(***************************************************************************)
EXTENDS Integers, Sequences, FiniteSets, TLC

VARIABLES
    files,      \* the file system under the working directory: path -> file
    call,       \* the last direct call of FileEditTool.Execute and its result
    context,    \* Agent.context, the transcript
    apiKey,     \* llm.Client.apiKey is set (TRUE) or empty (FALSE)
    pc,         \* where main and Agent.Process stand
    turn,       \* what the current (or last) call of Agent.Process has done
    run         \* the run of main: how it started and what it has saved

vars == <<files, call, context, apiKey, pc, turn, run>>

\* a value computed once and used, under a name, in what follows
With(value, Body(_)) == Body(value)

----------------------------------------------------------------------------
(* Package strings and fmt, as far as the program uses them.               *)

\* s[from : to] of Go: bytes from+1 .. to (zero-based, half-open)
Slice(s, from, to) == SubSeq(s, from + 1, to)

HasPrefix(s, prefix) ==
    Len(s) >= Len(prefix) /\ SubSeq(s, 1, Len(prefix)) = prefix

HasSuffix(s, suffix) ==
    Len(s) >= Len(suffix) /\ SubSeq(s, Len(s) - Len(suffix) + 1, Len(s)) = suffix

\* the zero-based offsets at which substr occurs in s
Occurrences(s, substr) ==
    LET text == s
        n == Len(substr)
    IN  {i \in 0..(Len(text) - n) : \A k \in 1..n : text[i + k] = substr[k]}

Contains(s, substr) == Occurrences(s, substr) # {}

\* strings.Index: the first offset of substr in s, or -1
Index(s, substr) ==
    LET at == Occurrences(s, substr) IN
    IF at = {} THEN -1 ELSE CHOOSE i \in at : \A j \in at : i <= j

\* strings.LastIndex: the last offset of substr in s, or -1
LastIndex(s, substr) ==
    LET at == Occurrences(s, substr) IN
    IF at = {} THEN -1 ELSE CHOOSE i \in at : \A j \in at : i >= j

\* strings.Split(s, sep) for a one-byte separator: Count(s, sep) + 1 pieces
Split(s, sep) ==
    LET at     == {i \in 1..Len(s) : s[i] = sep}
        n      == Cardinality(at) + 1
        cut(k) == IF k = 0 THEN 0
                  ELSE IF k = n THEN Len(s) + 1
                  ELSE CHOOSE p \in at : Cardinality({q \in at : q <= p}) = k
    IN  [k \in 1..n |-> SubSeq(s, cut(k - 1) + 1, cut(k) - 1)]

\* strings.Join(elems, sep)
RECURSIVE Join(_, _)
Join(elems, sep) ==
    IF elems = <<>> THEN <<>>
    ELSE IF Len(elems) = 1 THEN elems[1]
    ELSE elems[1] \o <<sep>> \o Join(Tail(elems), sep)

\* strings.ReplaceAll(s, old, ""): the non-overlapping occurrences of a
\* non-empty old, found left to right, are removed
RECURSIVE RemoveAll(_, _)
RemoveAll(s, old) ==
    LET i == Index(s, old) IN
    IF i = -1 THEN s
    ELSE Slice(s, 0, i) \o RemoveAll(Slice(s, i + Len(old), Len(s)), old)

Space == {" ", "\t", "\n", "\r"}

\* strings.TrimSpace
TrimSpace(s) ==
    LET keep == {i \in 1..Len(s) : s[i] \notin Space}
    IN  IF keep = {} THEN <<>>
        ELSE SubSeq(s, CHOOSE i \in keep : \A j \in keep : i <= j,
                       CHOOSE i \in keep : \A j \in keep : i >= j)

UpperCase == <<"A", "B", "C", "D", "E", "F", "G", "H", "I", "J", "K", "L", "M",
               "N", "O", "P", "Q", "R", "S", "T", "U", "V", "W", "X", "Y", "Z">>
LowerCase == <<"a", "b", "c", "d", "e", "f", "g", "h", "i", "j", "k", "l", "m",
               "n", "o", "p", "q", "r", "s", "t", "u", "v", "w", "x", "y", "z">>

\* the bytes of U+FFFD, the replacement rune
S_ReplacementRune == <<"0xEF", "0xBF", "0xBD">>

\* the bytes above 0x7F of the model: 0xEF starts a rune of three bytes,
\* 0xBF and 0xBD continue a rune, 0xFF is part of no rune
HighBytes == {"0xEF", "0xBF", "0xBD", "0xFF"}
ContinuationBytes == {"0xBF", "0xBD"}

\* utf8.DecodeRuneInString at the high byte s[j]: the width of the rune,
\* or 0 where the bytes are not UTF-8
RuneWidth(s, j) ==
    IF /\ s[j] = "0xEF"
       /\ j + 2 <= Len(s)
       /\ s[j + 1] \in ContinuationBytes
       /\ s[j + 2] \in ContinuationBytes
    THEN 3
    ELSE 0

\* the high byte s[p] is a byte of a rune
InRune(s, p) ==
    \/ RuneWidth(s, p) > 0
    \/ p > 1 /\ s[p - 1] \in HighBytes /\ RuneWidth(s, p - 1) > 1
    \/ p > 2 /\ s[p - 2] \in HighBytes /\ RuneWidth(s, p - 2) > 2

\* the pieces f[lo], ..., f[hi] one after the other
RECURSIVE Flatten(_, _, _)
Flatten(f, lo, hi) ==
    IF lo > hi THEN <<>>
    ELSE IF lo = hi THEN f[lo]
    ELSE LET mid == (lo + hi) \div 2 IN Flatten(f, lo, mid) \o Flatten(f, mid + 1, hi)

\* strings.ToLower: the ASCII letters are lowered; in a string that is not
\* all ASCII, strings.Map writes the replacement rune for every byte that
\* is not UTF-8.  (The runes of the model have no lower case of their own.)
ToLower(s) ==
    LET lower(c) == IF \E k \in 1..Len(UpperCase) : UpperCase[k] = c
                    THEN LowerCase[CHOOSE k \in 1..Len(UpperCase) : UpperCase[k] = c]
                    ELSE c
    IN  IF \A i \in 1..Len(s) : s[i] \notin HighBytes
        THEN [i \in 1..Len(s) |-> lower(s[i])]
        ELSE Flatten([p \in 1..Len(s) |->
                         IF s[p] \in HighBytes /\ ~InRune(s, p) THEN S_ReplacementRune
                         ELSE <<lower(s[p])>>],
                     1, Len(s))

Digits == <<"0", "1", "2", "3", "4", "5", "6", "7", "8", "9">>

\* the %d verb of fmt
RECURSIVE Itoa(_)
Itoa(n) ==
    IF n < 0 THEN <<"-">> \o Itoa(-n)
    ELSE IF n < 10 THEN <<Digits[n + 1]>>
    ELSE Itoa(n \div 10) \o <<Digits[(n % 10) + 1]>>

----------------------------------------------------------------------------
(* The file system: the regular files and directories of the working      *)
(* directory, by path.  A path outside DOMAIN files does not exist.  The   *)
(* process can read and write every regular file it finds.                 *)

DefaultMode == "0644"

\* ioutil.WriteFile(name, data, perm): creates name with perm, or truncates
\* an existing name and keeps its mode
WriteFile(fs, name, data, perm) ==
    IF name \in DOMAIN fs
    THEN [fs EXCEPT ![name].content = data]
    ELSE [p \in DOMAIN fs \cup {name} |->
            IF p = name THEN [isDir |-> FALSE, content |-> data, mode |-> perm]
            ELSE fs[p]]

\* a tool's return: (output, nil) or ("", error), and the file system it leaves
Returned(fs, output) == [ok |-> TRUE, out |-> output, err |-> <<>>, fs |-> fs]
Failed(fs, message) == [ok |-> FALSE, out |-> <<>>, err |-> message, fs |-> fs]

----------------------------------------------------------------------------
(* FileEditTool                                                            *)

\* replace
S_replace ==
    <<"r", "e", "p", "l", "a", "c", "e">>
\* append
S_append ==
    <<"a", "p", "p", "e", "n", "d">>
\* file_path is required
S_ErrFilePathRequired ==
    <<"f", "i", "l", "e", "_", "p", "a", "t", "h", " ", "i", "s", " ", "r", "e", "q", "u", "i",
    "r", "e", "d">>
\* operation is required
S_ErrOperationRequired ==
    <<"o", "p", "e", "r", "a", "t", "i", "o", "n", " ", "i", "s", " ", "r", "e", "q", "u", "i",
    "r", "e", "d">>
\* Created new file 
S_CreatedNewFile ==
    <<"C", "r", "e", "a", "t", "e", "d", " ", "n", "e", "w", " ", "f", "i", "l", "e", " ">>
\*  with 
S_With ==
    <<" ", "w", "i", "t", "h", " ">>
\*  bytes
S_Bytes ==
    <<" ", "b", "y", "t", "e", "s">>
\* file not found: 
S_ErrFileNotFound ==
    <<"f", "i", "l", "e", " ", "n", "o", "t", " ", "f", "o", "u", "n", "d", ":", " ">>
\*  is a directory, not a file
S_ErrIsDirectory ==
    <<" ", "i", "s", " ", "a", " ", "d", "i", "r", "e", "c", "t", "o", "r", "y", ",", " ", "n",
    "o", "t", " ", "a", " ", "f", "i", "l", "e">>
\* start_line out of range: valid range is 1-
S_ErrStartLine ==
    <<"s", "t", "a", "r", "t", "_", "l", "i", "n", "e", " ", "o", "u", "t", " ", "o", "f", " ",
    "r", "a", "n", "g", "e", ":", " ", "v", "a", "l", "i", "d", " ", "r", "a", "n", "g", "e",
    " ", "i", "s", " ", "1", "-">>
\* unsupported operation: 
S_ErrUnsupported ==
    <<"u", "n", "s", "u", "p", "p", "o", "r", "t", "e", "d", " ", "o", "p", "e", "r", "a", "t",
    "i", "o", "n", ":", " ">>
\* . Use 'replace' or 'append'
S_UseReplaceOrAppend ==
    <<".", " ", "U", "s", "e", " ", "'", "r", "e", "p", "l", "a", "c", "e", "'", " ", "o", "r",
    " ", "'", "a", "p", "p", "e", "n", "d", "'">>
\* Successfully edited 
S_SuccessfullyEdited ==
    <<"S", "u", "c", "c", "e", "s", "s", "f", "u", "l", "l", "y", " ", "e", "d", "i", "t", "e",
    "d", " ">>
\*  bytes written)
S_BytesWritten ==
    <<" ", "b", "y", "t", "e", "s", " ", "w", "r", "i", "t", "t", "e", "n", ")">>

\* StartLineInRange without the test StartLine < 1
StartLineInRangeNoLowerBound(request, lines) ==
    request.StartLine <= Len(lines)

\* request.StartLine < 1 || request.StartLine > len(lines), negated
StartLineInRange(request, lines) ==
    request.StartLine >= 1 /\ request.StartLine <= Len(lines)

\* SpliceLines keeping lines[EndLine-1:], one line too many
SpliceLinesFromEndLine(lines, request, EndLine) ==
    SubSeq(lines, 1, request.StartLine - 1)
        \o Split(request.Content, "\n")
        \o SubSeq(lines, EndLine, Len(lines))

\* the lines a line-range replace leaves: lines[:StartLine-1], the lines of
\* Content, lines[EndLine:].  The inner append copies lines[EndLine:] into a
\* new array before the outer append writes into the array of lines.
SpliceLines(lines, request, EndLine) ==
    SubSeq(lines, 1, request.StartLine - 1)
        \o Split(request.Content, "\n")
        \o SubSeq(lines, EndLine + 1, Len(lines))

\* ReplaceWhole keeping the previous content in front
ReplaceWholeKeepsOld(currentContent, request) == currentContent \o request.Content

\* the whole file replaced: newContent = []byte(request.Content)
ReplaceWhole(currentContent, request) == request.Content

\* ClampEndLine that leaves an EndLine below StartLine as it is
ClampEndLineOnlyAbove(request, lines) ==
    IF request.EndLine > Len(lines) THEN Len(lines) ELSE request.EndLine

\* if request.EndLine < request.StartLine || request.EndLine > len(lines)
\*     { request.EndLine = len(lines) }
ClampEndLine(request, lines) ==
    IF request.EndLine < request.StartLine \/ request.EndLine > Len(lines)
    THEN Len(lines)
    ELSE request.EndLine

\* case "replace"
ReplaceContent(currentContent, request) ==
    IF request.StartLine = 0 /\ request.EndLine = 0
    THEN [ok |-> TRUE, newContent |-> ReplaceWhole(currentContent, request)]
    ELSE LET lines == Split(currentContent, "\n") IN
         IF ~StartLineInRange(request, lines)
         THEN [ok |-> FALSE, err |-> S_ErrStartLine \o Itoa(Len(lines))]
         ELSE LET EndLine == ClampEndLine(request, lines)
              IN  [ok |-> TRUE,
                   newContent |-> Join(SpliceLines(lines, request, EndLine), "\n")]

\* AppendContent that never inserts a newline
AppendContentNoNewline(currentContent, request) == currentContent \o request.Content

\* case "append"
AppendContent(currentContent, request) ==
    IF HasSuffix(currentContent, <<"\n">>)
    THEN currentContent \o request.Content
    ELSE currentContent \o <<"\n">> \o request.Content

\* CreateMissing that ends the file it creates with a newline
CreateMissingAddsNewline(fs, request) ==
    IF request.Content # <<>>
    THEN Returned(WriteFile(fs, request.FilePath, request.Content \o <<"\n">>, DefaultMode),
                  S_CreatedNewFile \o request.FilePath \o S_With
                      \o Itoa(Len(request.Content)) \o S_Bytes)
    ELSE Failed(fs, S_ErrFileNotFound \o request.FilePath)

\* CreateMissing that creates the file for "replace" only
CreateMissingOnlyToReplace(fs, request) ==
    IF request.Content # <<>> /\ request.Operation = S_replace
    THEN Returned(WriteFile(fs, request.FilePath, request.Content, DefaultMode),
                  S_CreatedNewFile \o request.FilePath \o S_With
                      \o Itoa(Len(request.Content)) \o S_Bytes)
    ELSE Failed(fs, S_ErrFileNotFound \o request.FilePath)

\* os.IsNotExist(err): the file is created from a non-empty Content
CreateMissing(fs, request) ==
    IF request.Content # <<>>
    THEN Returned(WriteFile(fs, request.FilePath, request.Content, DefaultMode),
                  S_CreatedNewFile \o request.FilePath \o S_With
                      \o Itoa(Len(request.Content)) \o S_Bytes)
    ELSE Failed(fs, S_ErrFileNotFound \o request.FilePath)

\* UnsupportedOperation that does not name the operation it was given
UnsupportedOperationUnnamed(request) ==
    [ok |-> FALSE, err |-> S_ErrUnsupported \o S_UseReplaceOrAppend]

\* default: the operation is neither "replace" nor "append"
UnsupportedOperation(request) ==
    [ok |-> FALSE, err |-> S_ErrUnsupported \o request.Operation \o S_UseReplaceOrAppend]

\* FileEditTool.Execute from its parsed request on
ExecuteRequest(fs, request) ==
    IF request.FilePath = <<>> THEN Failed(fs, S_ErrFilePathRequired)
    ELSE IF request.Operation = <<>> THEN Failed(fs, S_ErrOperationRequired)
    ELSE IF request.FilePath \notin DOMAIN fs
    THEN CreateMissing(fs, request)
    ELSE IF fs[request.FilePath].isDir
    THEN Failed(fs, request.FilePath \o S_ErrIsDirectory)
    ELSE LET fileInfo == fs[request.FilePath]
             currentContent == fileInfo.content
             edit == IF request.Operation = S_replace
                     THEN ReplaceContent(currentContent, request)
                     ELSE IF request.Operation = S_append
                     THEN [ok |-> TRUE, newContent |-> AppendContent(currentContent, request)]
                     ELSE UnsupportedOperation(request)
         IN  IF ~edit.ok THEN Failed(fs, edit.err)
             ELSE Returned(WriteFile(fs, request.FilePath, edit.newContent, fileInfo.mode),
                           S_SuccessfullyEdited \o request.FilePath \o <<" ", "(">>
                               \o Itoa(Len(edit.newContent)) \o S_BytesWritten)

----------------------------------------------------------------------------
(* FileEditTool.Execute called directly on a parsed request, from every    *)
(* file system of a bounded set, and called once more with the same        *)
(* request.                                                                *)

MaxLine == 5
MaxInitLen == 4

\* the strings over alphabet of length at most n
StringsUpTo(alphabet, n) == UNION {[1..k -> alphabet] : k \in 0..n}

S_delete == <<"d", "e", "l", "e", "t", "e">>

EditPaths == {<<"f">>, <<"g">>, <<"d">>}
EditContents == {<<>>, <<"X">>, <<"B">>, <<"X", "\n", "Y">>}
InitContents ==
    StringsUpTo({"A", "\n"}, MaxInitLen) \cup {<<"A", "\n", "B", "\n", "C">>}

EditRequests ==
    [FilePath : {<<"f">>}, Operation : {S_replace}, Content : EditContents,
     StartLine : (-1)..MaxLine, EndLine : 0..(MaxLine - 1)]
    \cup
    [FilePath : EditPaths \cup {<<>>}, Operation : {S_replace, S_append, S_delete, <<>>},
     Content : EditContents, StartLine : {0, 1}, EndLine : {0, 2}]

NoRequest ==
    [FilePath |-> <<>>, Operation |-> <<>>, Content |-> <<>>, StartLine |-> 0, EndLine |-> 0]

Directory == [isDir |-> TRUE, content |-> <<>>, mode |-> "0755"]

\* the working directory before the call: a directory d, no g, and f either
\* missing or a regular file
InitFileSystems ==
    {[p \in {<<"d">>} |-> Directory]}
    \cup
    {[p \in {<<"d">>, <<"f">>} |->
        IF p = <<"d">> THEN Directory
        ELSE [isDir |-> FALSE, content |-> c, mode |-> "0600"]]
     : c \in InitContents}

NoCall == [n |-> 0, request |-> NoRequest, before |-> <<>>,
           ok |-> FALSE, out |-> <<>>, err |-> <<>>, first |-> <<>>]
\* no request has been sent to the endpoint
NoPayload == [sent |-> FALSE, messages |-> <<>>, system |-> <<>>]

NoTurn ==
    [n |-> 0, prior |-> <<>>, input |-> <<>>, status |-> "none", failedAt |-> "none",
     queries |-> 0, executions |-> 0, reply |-> <<>>, toolName |-> <<>>, toolOut |-> <<>>,
     final |-> <<>>, ret |-> <<>>, err |-> <<>>, payload |-> NoPayload]

NoRun == [n |-> 0, how |-> "none", atStart |-> [exists |-> FALSE, data |-> <<>>],
          saved |-> <<>>]

InitEdit ==
    /\ files \in InitFileSystems
    /\ call = NoCall
    /\ context = <<>>
    /\ apiKey = FALSE
    /\ pc = "edit"
    /\ turn = NoTurn
    /\ run = NoRun

\* Execute(request) on the file system as it is
EditCall(request) ==
    LET result == ExecuteRequest(files, request) IN
    /\ pc = "edit"
    /\ call.n = 0
    /\ files' = result.fs
    /\ call' = [n |-> 1, request |-> request, before |-> files,
                ok |-> result.ok, out |-> result.out, err |-> result.err,
                first |-> result.fs]
    /\ UNCHANGED <<context, apiKey, pc, turn, run>>

\* the same request executed a second time
EditAgain ==
    LET result == ExecuteRequest(files, call.request) IN
    /\ pc = "edit"
    /\ call.n = 1
    /\ files' = result.fs
    /\ call' = [call EXCEPT !.n = 2, !.before = files, !.ok = result.ok,
                            !.out = result.out, !.err = result.err]
    /\ UNCHANGED <<context, apiKey, pc, turn, run>>

NextEdit ==
    \/ \E request \in EditRequests : EditCall(request)
    \/ EditAgain

SpecEdit == InitEdit /\ [][NextEdit]_vars

----------------------------------------------------------------------------
(* The tools package: WebSearchTool, FileSearchTool, FileReadTool and the  *)
(* parsing of FileEditTool's input.                                        *)

\* web_search
S_web_search ==
    <<"w", "e", "b", "_", "s", "e", "a", "r", "c", "h">>
\* file_search
S_file_search ==
    <<"f", "i", "l", "e", "_", "s", "e", "a", "r", "c", "h">>
\* file_read
S_file_read ==
    <<"f", "i", "l", "e", "_", "r", "e", "a", "d">>
\* file_edit
S_file_edit ==
    <<"f", "i", "l", "e", "_", "e", "d", "i", "t">>
\* use the
S_use_the ==
    <<"u", "s", "e", " ", "t", "h", "e">>
\* tool
S_tool ==
    <<"t", "o", "o", "l">>
\* to
S_to ==
    <<"t", "o">>
\* with
S_with ==
    <<"w", "i", "t", "h">>
\* for
S_for ==
    <<"f", "o", "r">>
\* using
S_using ==
    <<"u", "s", "i", "n", "g">>
\* use
S_use ==
    <<"u", "s", "e">>
\* the
S_the ==
    <<"t", "h", "e">>
\* :
S_colon ==
    <<":">>
\* {"error": "Could not extract valid JSON from input. Please provide a valid JSON object with file_path, operation, and content fields."}
S_ExtractFailure ==
    <<"{", "\"", "e", "r", "r", "o", "r", "\"", ":", " ", "\"", "C", "o", "u", "l", "d", " ",
    "n", "o", "t", " ", "e", "x", "t", "r", "a", "c", "t", " ", "v", "a", "l", "i", "d", " ",
    "J", "S", "O", "N", " ", "f", "r", "o", "m", " ", "i", "n", "p", "u", "t", ".", " ", "P",
    "l", "e", "a", "s", "e", " ", "p", "r", "o", "v", "i", "d", "e", " ", "a", " ", "v", "a",
    "l", "i", "d", " ", "J", "S", "O", "N", " ", "o", "b", "j", "e", "c", "t", " ", "w", "i",
    "t", "h", " ", "f", "i", "l", "e", "_", "p", "a", "t", "h", ",", " ", "o", "p", "e", "r",
    "a", "t", "i", "o", "n", ",", " ", "a", "n", "d", " ", "c", "o", "n", "t", "e", "n", "t",
    " ", "f", "i", "e", "l", "d", "s", ".", "\"", "}">>
\* tool 
S_ErrToolNotFoundPrefix ==
    <<"t", "o", "o", "l", " ">>
\*  not found
S_ErrToolNotFoundSuffix ==
    <<" ", "n", "o", "t", " ", "f", "o", "u", "n", "d">>
\* tool execution error: 
S_ToolExecutionError ==
    <<"t", "o", "o", "l", " ", "e", "x", "e", "c", "u", "t", "i", "o", "n", " ", "e", "r", "r",
    "o", "r", ":", " ">>
\* Tool '
S_ToolQuote ==
    <<"T", "o", "o", "l", " ", "'">>
\* ' returned: 
S_ToolReturned ==
    <<"'", " ", "r", "e", "t", "u", "r", "n", "e", "d", ":", " ">>
\* Mock Claude response to: 
S_MockResponse ==
    <<"M", "o", "c", "k", " ", "C", "l", "a", "u", "d", "e", " ", "r", "e", "s", "p", "o", "n",
    "s", "e", " ", "t", "o", ":", " ">>
\* API error: status 
S_ErrApiStatus ==
    <<"A", "P", "I", " ", "e", "r", "r", "o", "r", ":", " ", "s", "t", "a", "t", "u", "s",
    " ">>
\* Mock search results for '
S_MockSearchResults ==
    <<"M", "o", "c", "k", " ", "s", "e", "a", "r", "c", "h", " ", "r", "e", "s", "u", "l", "t",
    "s", " ", "f", "o", "r", " ", "'">>
\* ': [Result 1, Result 2, Result 3]
S_MockSearchResultsEnd ==
    <<"'", ":", " ", "[", "R", "e", "s", "u", "l", "t", " ", "1", ",", " ", "R", "e", "s", "u",
    "l", "t", " ", "2", ",", " ", "R", "e", "s", "u", "l", "t", " ", "3", "]">>
\* No files matching '
S_NoFilesMatching ==
    <<"N", "o", " ", "f", "i", "l", "e", "s", " ", "m", "a", "t", "c", "h", "i", "n", "g", " ",
    "'">>
\* ' found
S_Found ==
    <<"'", " ", "f", "o", "u", "n", "d">>
\* Files matching '
S_FilesMatching ==
    <<"F", "i", "l", "e", "s", " ", "m", "a", "t", "c", "h", "i", "n", "g", " ", "'">>
\* ':\n
S_FilesMatchingEnd ==
    <<"'", ":", "\n">>
\* - 
S_Dash ==
    <<"-", " ">>
\* read 
S_ErrRead ==
    <<"r", "e", "a", "d", " ">>
\* : is a directory
S_ErrReadIsDirectory ==
    <<":", " ", "i", "s", " ", "a", " ", "d", "i", "r", "e", "c", "t", "o", "r", "y">>
\* invalid JSON input: 
S_ErrInvalidJSON ==
    <<"i", "n", "v", "a", "l", "i", "d", " ", "J", "S", "O", "N", " ", "i", "n", "p", "u", "t",
    ":", " ">>
\* , input was: 
S_InputWas ==
    <<",", " ", "i", "n", "p", "u", "t", " ", "w", "a", "s", ":", " ">>
\* file_path
S_key_file_path ==
    <<"f", "i", "l", "e", "_", "p", "a", "t", "h">>
\* operation
S_key_operation ==
    <<"o", "p", "e", "r", "a", "t", "i", "o", "n">>
\* content
S_key_content ==
    <<"c", "o", "n", "t", "e", "n", "t">>
\* start_line
S_key_start_line ==
    <<"s", "t", "a", "r", "t", "_", "l", "i", "n", "e">>
\* end_line
S_key_end_line ==
    <<"e", "n", "d", "_", "l", "i", "n", "e">>

\* the printable ASCII bytes in their order (without the backquote)
Ascii ==
    <<" ", "!", "\"", "#", "$", "%", "&", "'", "(", ")", "*", "+", ",", "-", ".", "/", "0",
      "1", "2", "3", "4", "5", "6", "7", "8", "9", ":", ";", "<", "=", ">", "?", "@", "A",
      "B", "C", "D", "E", "F", "G", "H", "I", "J", "K", "L", "M", "N", "O", "P", "Q", "R",
      "S", "T", "U", "V", "W", "X", "Y", "Z", "[", "\\", "]", "^", "_", "a", "b", "c",
      "d", "e", "f", "g", "h", "i", "j", "k", "l", "m", "n", "o", "p", "q", "r", "s", "t",
      "u", "v", "w", "x", "y", "z", "{", "|", "}", "~">>

CharCode(c) == CHOOSE k \in 1..Len(Ascii) : Ascii[k] = c

\* a < b as Go strings (bytewise)
RECURSIVE Less(_, _)
Less(a, b) ==
    IF a = <<>> THEN b # <<>>
    ELSE IF b = <<>> THEN FALSE
    ELSE IF a[1] = b[1] THEN Less(Tail(a), Tail(b))
    ELSE CharCode(a[1]) < CharCode(b[1])

RECURSIVE Sorted(_)
Sorted(names) ==
    IF names = {} THEN <<>>
    ELSE LET first == CHOOSE x \in names : \A y \in names \ {x} : Less(x, y)
         IN  <<first>> \o Sorted(names \ {first})

S_dot == <<".">>

\* filepath.Walk(".", fn): the root, then its entries in lexical order (the
\* directories of the model are empty)
Walk(fs) == <<S_dot>> \o Sorted(DOMAIN fs \ {S_dot})

\* WebSearchTool.Execute
WebSearchExecute(fs, input) ==
    Returned(fs, S_MockSearchResults \o TrimSpace(input) \o S_MockSearchResultsEnd)

RECURSIVE FileList(_)
FileList(matchedFiles) ==
    IF matchedFiles = <<>> THEN <<>>
    ELSE S_Dash \o Head(matchedFiles) \o <<"\n">> \o FileList(Tail(matchedFiles))

\* FileSearchTool.Execute: info.Name() of an entry of the root is its path
FileSearchExecute(fs, input) ==
    LET searchTerm == TrimSpace(input)
        matchedFiles ==
            SelectSeq(Walk(fs), LAMBDA path : Contains(ToLower(path), ToLower(searchTerm)))
    IN  IF Len(matchedFiles) = 0
        THEN Returned(fs, S_NoFilesMatching \o searchTerm \o S_Found)
        ELSE Returned(fs, S_FilesMatching \o searchTerm \o S_FilesMatchingEnd
                              \o FileList(matchedFiles))

\* FileReadTool.Execute
FileReadExecute(fs, input) ==
    LET filePath == TrimSpace(input) IN
    IF filePath \notin DOMAIN fs THEN Failed(fs, S_ErrFileNotFound \o filePath)
    ELSE IF fs[filePath].isDir
    THEN Failed(fs, S_ErrRead \o filePath \o S_ErrReadIsDirectory)
    ELSE Returned(fs, fs[filePath].content)

(* json.Unmarshal([]byte(input), &request), for the JSON the model feeds   *)
(* it: one object whose values are strings (with the escapes \n \t \r \"   *)
(* \\ \/ and the \u escapes that json.Marshal writes) or integers.         *)
(* Anything else is reported as an error.                                  *)

ParseFailed == [ok |-> FALSE]

SkipSpace(s, i) ==
    IF \E j \in i..Len(s) : s[j] \notin Space
    THEN CHOOSE j \in i..Len(s) : s[j] \notin Space /\ \A k \in i..(j - 1) : s[k] \in Space
    ELSE Len(s) + 1

Unescaped(c) ==
    CASE c = "n" -> "\n" [] c = "t" -> "\t" [] c = "r" -> "\r" [] OTHER -> c

\* the \uXXXX escapes of the model and the bytes they stand for
UnicodeEscapes ==
    {[hex |-> <<"0", "0", "3", "c">>, bytes |-> <<"<">>],
     [hex |-> <<"0", "0", "3", "e">>, bytes |-> <<">">>],
     [hex |-> <<"0", "0", "2", "6">>, bytes |-> <<"&">>],
     [hex |-> <<"f", "f", "f", "d">>, bytes |-> S_ReplacementRune]}

\* how many backslashes stand right before s[j], from offset i on
BackslashRun(s, i, j) ==
    CHOOSE k \in 0..(j - i) :
        /\ \A m \in (j - k)..(j - 1) : s[m] = "\\"
        /\ k = j - i \/ s[j - k - 1] # "\\"

\* a backslash or quote that no backslash escapes
Unescapedly(s, i, j) == BackslashRun(s, i, j) % 2 = 0

\* the bytes a string literal's body stands for, or that it is malformed:
\* escapes are replaced, bytes that are not UTF-8 become U+FFFD, a raw
\* control byte is an error
Unquote(body) ==
    LET n == Len(body)
        escapes == {p \in 1..n : body[p] = "\\" /\ Unescapedly(body, 1, p)}
        length(p) == IF p + 1 <= n /\ body[p + 1] = "u" THEN 6 ELSE 2
        wellFormed(p) ==
            /\ p + 1 <= n
            /\ \/ body[p + 1] \in {"n", "t", "r", "\"", "\\", "/"}
               \/ /\ body[p + 1] = "u"
                  /\ p + 5 <= n
                  /\ \E e \in UnicodeEscapes : e.hex = SubSeq(body, p + 2, p + 5)
        covered(p) == \E d \in 1..5 : (p - d) \in escapes /\ d < length(p - d)
        piece(p) ==
            IF p \in escapes
            THEN IF body[p + 1] = "u"
                 THEN (CHOOSE e \in UnicodeEscapes : e.hex = SubSeq(body, p + 2, p + 5)).bytes
                 ELSE <<Unescaped(body[p + 1])>>
            ELSE IF covered(p) THEN <<>>
            ELSE IF body[p] \in HighBytes /\ ~InRune(body, p) THEN S_ReplacementRune
            ELSE <<body[p]>>
    IN  IF \E p \in escapes : ~wellFormed(p) THEN ParseFailed
        ELSE IF \E p \in 1..n : body[p] \in {"\n", "\t", "\r"} THEN ParseFailed
        ELSE [ok |-> TRUE, val |-> Flatten([p \in 1..n |-> piece(p)], 1, n)]

\* the string literal whose opening quote is before offset i: its value and
\* the offset after its closing quote
ScanString(s, i) ==
    LET quotes == {j \in i..Len(s) : s[j] = "\"" /\ Unescapedly(s, i, j)} IN
    IF quotes = {} THEN ParseFailed
    ELSE With(CHOOSE j \in quotes : \A k \in quotes : j <= k, LAMBDA close :
         With(Unquote(SubSeq(s, i, close - 1)), LAMBDA value :
             IF ~value.ok THEN ParseFailed
             ELSE [ok |-> TRUE, val |-> value.val, next |-> close + 1]))

IsDigit(c) == \E k \in 1..Len(Digits) : Digits[k] = c

RECURSIVE Atoi(_)
Atoi(s) ==
    IF s = <<>> THEN 0
    ELSE 10 * Atoi(SubSeq(s, 1, Len(s) - 1))
             + (CHOOSE k \in 1..Len(Digits) : Digits[k] = s[Len(s)]) - 1

\* the integer literal at offset i
ScanNumber(s, i) ==
    LET negative == i <= Len(s) /\ s[i] = "-"
        start == IF negative THEN i + 1 ELSE i
        end == IF \E j \in start..Len(s) : ~IsDigit(s[j])
               THEN (CHOOSE j \in start..Len(s) :
                        ~IsDigit(s[j]) /\ \A k \in start..(j - 1) : IsDigit(s[k])) - 1
               ELSE Len(s)
    IN  IF end < start THEN ParseFailed
        ELSE IF end > start /\ s[start] = "0" THEN ParseFailed
        ELSE IF end + 1 <= Len(s) /\ s[end + 1] \in {".", "e", "E"} THEN ParseFailed
        ELSE [ok |-> TRUE,
              val |-> IF negative THEN 0 - Atoi(SubSeq(s, start, end))
                      ELSE Atoi(SubSeq(s, start, end)),
              next |-> end + 1]

\* the value stored in the field of FileEditRequest the key names; field
\* names match keys without regard to case
SetField(request, key, val) ==
    LET field == ToLower(key) IN
    IF field = S_key_file_path THEN [request EXCEPT !.FilePath = val]
    ELSE IF field = S_key_operation THEN [request EXCEPT !.Operation = val]
    ELSE IF field = S_key_content THEN [request EXCEPT !.Content = val]
    ELSE IF field = S_key_start_line THEN [request EXCEPT !.StartLine = val]
    ELSE IF field = S_key_end_line THEN [request EXCEPT !.EndLine = val]
    ELSE request

\* a string value for an int field or a number for a string field
WrongType(key, isString) ==
    LET field == ToLower(key) IN
    \/ field \in {S_key_file_path, S_key_operation, S_key_content} /\ ~isString
    \/ field \in {S_key_start_line, S_key_end_line} /\ isString

\* the members of the object from the key at offset i to the closing brace
RECURSIVE ScanMembers(_, _, _)
ScanMembers(s, i, request) ==
    IF i > Len(s) \/ s[i] # "\"" THEN ParseFailed
    ELSE With(ScanString(s, i + 1), LAMBDA key :
    IF ~key.ok THEN ParseFailed
    ELSE With(SkipSpace(s, key.next), LAMBDA colon :
    IF colon > Len(s) \/ s[colon] # ":" THEN ParseFailed
    ELSE With(SkipSpace(s, colon + 1), LAMBDA at :
    IF at > Len(s) THEN ParseFailed
    ELSE LET isString == s[at] = "\"" IN
    With(IF isString THEN ScanString(s, at + 1) ELSE ScanNumber(s, at), LAMBDA value :
    IF ~value.ok THEN ParseFailed
    ELSE IF WrongType(key.val, isString) THEN ParseFailed
    ELSE With(SkipSpace(s, value.next), LAMBDA after :
    IF after > Len(s) THEN ParseFailed
    ELSE IF s[after] = ","
    THEN ScanMembers(s, SkipSpace(s, after + 1), SetField(request, key.val, value.val))
    ELSE IF s[after] = "}"
    THEN [ok |-> TRUE, request |-> SetField(request, key.val, value.val), next |-> after + 1]
    ELSE ParseFailed)))))

ParseRequest(input) ==
    LET open == SkipSpace(input, 1) IN
    IF open > Len(input) \/ input[open] # "{" THEN ParseFailed
    ELSE LET first == SkipSpace(input, open + 1) IN
         With(IF first <= Len(input) /\ input[first] = "}"
              THEN [ok |-> TRUE, request |-> NoRequest, next |-> first + 1]
              ELSE ScanMembers(input, first, NoRequest),
              LAMBDA object :
                  IF ~object.ok THEN ParseFailed
                  ELSE IF SkipSpace(input, object.next) <= Len(input) THEN ParseFailed
                  ELSE [ok |-> TRUE, request |-> object.request])

\* FileEditTool.Execute; "%w" stands for the text of the decoder's error
FileEditExecute(fs, input) ==
    With(ParseRequest(input), LAMBDA parsed :
        IF ~parsed.ok
        THEN Failed(fs, S_ErrInvalidJSON \o <<"%w">> \o S_InputWas \o input)
        ELSE ExecuteRequest(fs, parsed.request))
----------------------------------------------------------------------------
(* The agent package: NewAgent, the heuristics of the tool protocol and    *)
(* executeTool.                                                            *)

\* the keys of Agent.toolRegistry
ToolNames == {S_web_search, S_file_search, S_file_read, S_file_edit}

\* Tool.GetDescription
Description(toolName) ==
    CASE toolName = S_web_search -> "Search the web for information"
      [] toolName = S_file_search -> "Search for files by name in the filesystem"
      [] toolName = S_file_read -> "Read the contents of a file at the specified path"
      [] toolName = S_file_edit ->
            "Edit a file - can replace entire file, replace specific lines, or append content (input is JSON)"

(* The text of the system message is kept in pieces: a run of bytes that   *)
(* JSON writes as they are, or one byte (a newline, a quote, or "0x60",    *)
(* the backquote).  The program never looks into the text.                 *)
SystemMessageHead ==
    <<"You are a helpful AI assistant powered by Claude. You have access to these tools:",
      "\n",
      "\n">>

SystemMessageTail ==
    <<"\n",
      "To use a tool, simply mention its name and what you want to do with it. For example: 'I need to use the web_search tool to find information about...' or 'I'll use file_search to look for...'.",
      "\n",
      "\n",
      "To use the file_edit tool, include a JSON object with the following structure:",
      "\n",
      "0x60",
      "0x60",
      "0x60",
      "json",
      "\n",
      "{",
      "\n",
      "  ", "\"", "file_path", "\"", ": ", "\"", "path/to/file.txt", "\"",
      ", // Required: Path to the file to edit",
      "\n",
      "  ", "\"", "operation", "\"", ": ", "\"", "replace", "\"",
      ", // Required: Either 'replace' or 'append'",
      "\n",
      "  ", "\"", "content", "\"", ": ", "\"", "new content", "\"",
      ", // Required: The content to write",
      "\n",
      "  ", "\"", "start_line", "\"",
      ": 1, // Optional: Line number to start replacing (only for replace)",
      "\n",
      "  ", "\"", "end_line", "\"",
      ": 5 // Optional: Line number to end replacing (only for replace)",
      "\n",
      "}",
      "\n",
      "0x60",
      "0x60",
      "0x60",
      "\n",
      "For example: 'I'll use the file_edit tool to update the README.md file: {", "\"",
      "file_path", "\"", ": ", "\"", "README.md", "\"", ", ", "\"", "operation", "\"", ": ",
      "\"", "replace", "\"", ", ", "\"", "content", "\"", ": ", "\"", "# Updated README", "\"",
      "}'.">>

\* the orders in which the range over toolRegistry lists the tools: Go
\* leaves the order of a map open, and two of the orders are followed here
RegistryOrders ==
    {<<S_web_search, S_file_search, S_file_read, S_file_edit>>,
     <<S_file_edit, S_file_read, S_web_search, S_file_search>>}

RECURSIVE ToolLines(_)
ToolLines(order) ==
    IF order = <<>> THEN <<>>
    ELSE <<"-", " ">> \o Head(order) \o <<":", " ", Description(Head(order)), "\n">>
             \o ToolLines(Tail(order))

SystemMessage(order) == SystemMessageHead \o ToolLines(order) \o SystemMessageTail

Message(role, content) == [Role |-> role, Content |-> content]

\* shouldUseTool with either phrase sufficing
ShouldUseToolEitherPhrase(input) ==
    LET lowered == ToLower(input) IN
    \/ \E toolName \in ToolNames : Contains(lowered, ToLower(toolName))
    \/ Contains(lowered, S_use_the) \/ Contains(lowered, S_tool)

\* Agent.shouldUseTool
ShouldUseTool(input) ==
    LET lowered == ToLower(input) IN
    \/ \E toolName \in ToolNames : Contains(lowered, ToLower(toolName))
    \/ Contains(lowered, S_use_the) /\ Contains(lowered, S_tool)

\* detectToolName looking for the names in the reply as written
DetectToolNameAsWritten(input) ==
    LET found == {toolName \in ToolNames : Contains(input, ToLower(toolName))}
    IN  IF found # {} THEN found ELSE {S_web_search}

\* detectToolName falling back to a name that is not registered
DetectToolNameUnregisteredFallback(input) ==
    LET lowered == ToLower(input)
        found == {toolName \in ToolNames : Contains(lowered, ToLower(toolName))}
    IN  IF found # {} THEN found ELSE {<<"s", "e", "a", "r", "c", "h">>}

\* Agent.detectToolName: the names it can return; the range over the map
\* meets the registered names in any order
DetectToolName(input) ==
    LET lowered == ToLower(input)
        found == {toolName \in ToolNames : Contains(lowered, ToLower(toolName))}
    IN  IF found # {} THEN found ELSE {S_web_search}

Phrases == <<S_tool, S_to, S_with, S_for, S_using, S_use, S_the, S_colon>>

RECURSIVE RemovePhrases(_, _)
RemovePhrases(cleanInput, phrases) ==
    IF phrases = <<>> THEN cleanInput
    ELSE RemovePhrases(RemoveAll(cleanInput, Head(phrases)), Tail(phrases))

\* input[toolNameIndex+len(toolName):] panics with "slice bounds out of
\* range": the index is one of the lowered reply, which is longer than the
\* reply where ToLower has written replacement runes
ExtractPanics(toolName, input) ==
    /\ toolName # S_file_edit
    /\ LET toolNameIndex == Index(ToLower(input), ToLower(toolName)) IN
       /\ toolNameIndex # -1
       /\ toolNameIndex + Len(toolName) > Len(input)

\* extractToolInput ending the JSON at the first '}'
ExtractToolInputToFirstClose(toolName, input) ==
    IF toolName = S_file_edit
    THEN LET jsonStart == Index(input, <<"{">>)
             jsonEnd == Index(input, <<"}">>)
         IN  IF jsonStart # -1 /\ jsonEnd # -1 /\ jsonEnd > jsonStart
             THEN Slice(input, jsonStart, jsonEnd + 1)
             ELSE S_ExtractFailure
    ELSE LET toolNameIndex == Index(ToLower(input), ToLower(toolName)) IN
         IF toolNameIndex = -1 THEN input
         ELSE LET afterToolName == Slice(input, toolNameIndex + Len(toolName), Len(input))
              IN  TrimSpace(RemovePhrases(afterToolName, Phrases))

\* Agent.extractToolInput, where it returns
ExtractToolInput(toolName, input) ==
    IF toolName = S_file_edit
    THEN LET jsonStart == Index(input, <<"{">>)
             jsonEnd == LastIndex(input, <<"}">>)
         IN  IF jsonStart # -1 /\ jsonEnd # -1 /\ jsonEnd > jsonStart
             THEN Slice(input, jsonStart, jsonEnd + 1)
             ELSE S_ExtractFailure
    ELSE LET toolNameIndex == Index(ToLower(input), ToLower(toolName)) IN
         IF toolNameIndex = -1 THEN input
         ELSE LET afterToolName == Slice(input, toolNameIndex + Len(toolName), Len(input))
              IN  TrimSpace(RemovePhrases(afterToolName, Phrases))

\* Tool.Execute of the registered tool
Execute(fs, toolName, toolInput) ==
    CASE toolName = S_web_search -> WebSearchExecute(fs, toolInput)
      [] toolName = S_file_search -> FileSearchExecute(fs, toolInput)
      [] toolName = S_file_read -> FileReadExecute(fs, toolInput)
      [] toolName = S_file_edit -> FileEditExecute(fs, toolInput)

\* Agent.executeTool
ExecuteTool(fs, toolName, input) ==
    IF toolName \notin ToolNames
    THEN Failed(fs, S_ErrToolNotFoundPrefix \o toolName \o S_ErrToolNotFoundSuffix)
    ELSE Execute(fs, toolName, ExtractToolInput(toolName, input))

\* convertToLLMMessages
ConvertToLLMMessages(agentMessages) ==
    [i \in 1..Len(agentMessages) |->
        [Role |-> agentMessages[i].Role, Content |-> agentMessages[i].Content]]

----------------------------------------------------------------------------
(* The conversation file: json.MarshalIndent(a.context, "", "  ") in       *)
(* SaveContext and json.Unmarshal(data, &a.context) in loadContext.        *)

\* conversation.json
S_ContextFile ==
    <<"c", "o", "n", "v", "e", "r", "s", "a", "t", "i", "o", "n", ".", "j", "s", "o", "n">>

\* Message.Role as the bytes of the string
RoleBytes(role) ==
    CASE role = "system" -> <<"s", "y", "s", "t", "e", "m">>
      [] role = "user" -> <<"u", "s", "e", "r">>
      [] role = "assistant" -> <<"a", "s", "s", "i", "s", "t", "a", "n", "t">>
      [] role = "tool" -> <<"t", "o", "o", "l">>
      [] role = "" -> <<>>
      [] role = "note" -> <<"n", "o", "t", "e">>

\* the roles the program writes, the empty role of the zero Message, and
\* note, a role it does not write but a conversation.json can hold
Roles == {"system", "user", "assistant", "tool", "", "note"}

RoleName(bytes) ==
    IF \E role \in Roles : RoleBytes(role) = bytes
    THEN CHOOSE role \in Roles : RoleBytes(role) = bytes
    ELSE bytes

\* what the encoder writes for a byte it does not copy; Marshal escapes
\* HTML's <, > and & too
EscapedBytes == {"\"", "\\", "\n", "\r", "\t", "<", ">", "&"}

Escaped(c) ==
    CASE c = "\"" -> <<"\\", "\"">>
      [] c = "\\" -> <<"\\", "\\">>
      [] c = "\n" -> <<"\\", "n">>
      [] c = "\r" -> <<"\\", "r">>
      [] c = "\t" -> <<"\\", "t">>
      [] c = "<" -> <<"\\", "u", "0", "0", "3", "c">>
      [] c = ">" -> <<"\\", "u", "0", "0", "3", "e">>
      [] c = "&" -> <<"\\", "u", "0", "0", "2", "6">>

\* what the encoder writes for a byte that is not UTF-8: the escape of the
\* replacement rune
S_EscapedReplacementRune == <<"\\", "u", "f", "f", "f", "d">>

\* the bytes of a string between the quotes of its JSON literal: a byte that
\* is not UTF-8 is written as the escape of the replacement rune
EncodeBytes(s) ==
    LET written(p) ==
            IF s[p] \in EscapedBytes THEN Escaped(s[p])
            ELSE IF s[p] \in HighBytes /\ ~InRune(s, p) THEN S_EscapedReplacementRune
            ELSE <<s[p]>>
    IN  Flatten([p \in 1..Len(s) |-> written(p)], 1, Len(s))

EncodeString(s) == <<"\"">> \o EncodeBytes(s) \o <<"\"">>

\* one Message, indented as an element of the array
EncodeMessage(message) ==
    <<" ", " ", "{", "\n",
      " ", " ", " ", " ", "\"", "r", "o", "l", "e", "\"", ":", " ">>
        \o EncodeString(RoleBytes(message.Role))
        \o <<",", "\n",
             " ", " ", " ", " ", "\"", "c", "o", "n", "t", "e", "n", "t", "\"", ":", " ">>
        \o EncodeString(message.Content)
        \o <<"\n", " ", " ", "}">>

\* the elements, a comma and a newline between them
EncodeMessages(messages) ==
    LET n == Len(messages)
        element(k) == IF k = n THEN EncodeMessage(messages[k])
                      ELSE EncodeMessage(messages[k]) \o <<",", "\n">>
    IN  Flatten([k \in 1..n |-> element(k)], 1, n)

\* json.MarshalIndent(a.context, "", "  ")
MarshalIndent(messages) ==
    IF messages = <<>> THEN <<"[", "]">>
    ELSE <<"[", "\n">> \o EncodeMessages(messages) \o <<"\n", "]">>

S_key_role == <<"r", "o", "l", "e">>

\* the zero Message
NoMessage == [Role |-> "", Content |-> <<>>]

\* the members of an element from the key at offset i to the closing brace;
\* a member that is no field of Message is skipped
RECURSIVE ScanMessageMembers(_, _, _)
ScanMessageMembers(s, i, message) ==
    IF i > Len(s) \/ s[i] # "\"" THEN ParseFailed
    ELSE With(ScanString(s, i + 1), LAMBDA key :
    IF ~key.ok THEN ParseFailed
    ELSE With(SkipSpace(s, key.next), LAMBDA colon :
    IF colon > Len(s) \/ s[colon] # ":" THEN ParseFailed
    ELSE With(SkipSpace(s, colon + 1), LAMBDA at :
    IF at > Len(s) \/ s[at] # "\"" THEN ParseFailed
    ELSE With(ScanString(s, at + 1), LAMBDA value :
    IF ~value.ok THEN ParseFailed
    ELSE With(ToLower(key.val), LAMBDA field :
         With(IF field = S_key_role
              THEN [message EXCEPT !.Role = RoleName(value.val)]
              ELSE IF field = S_key_content
              THEN [message EXCEPT !.Content = value.val]
              ELSE message, LAMBDA set :
         With(SkipSpace(s, value.next), LAMBDA after :
    IF after > Len(s) THEN ParseFailed
    ELSE IF s[after] = "," THEN ScanMessageMembers(s, SkipSpace(s, after + 1), set)
    ELSE IF s[after] = "}" THEN [ok |-> TRUE, message |-> set, next |-> after + 1]
    ELSE ParseFailed)))))))

\* the elements of the array from offset i to the closing bracket.  The
\* decoder fills the elements the slice already has in place, so a field
\* the file leaves out keeps the value it had; further elements start from
\* the zero Message
RECURSIVE ScanElements(_, _, _, _)
ScanElements(s, i, decoded, existing) ==
    IF i > Len(s) \/ s[i] # "{" THEN ParseFailed
    ELSE LET k == Len(decoded) + 1
             into == IF k <= Len(existing) THEN existing[k] ELSE NoMessage
             first == SkipSpace(s, i + 1)
         IN
    With(IF first <= Len(s) /\ s[first] = "}"
         THEN [ok |-> TRUE, message |-> into, next |-> first + 1]
         ELSE ScanMessageMembers(s, first, into), LAMBDA object :
    IF ~object.ok THEN ParseFailed
    ELSE With(SkipSpace(s, object.next), LAMBDA after :
    IF after > Len(s) THEN ParseFailed
    ELSE IF s[after] = ","
    THEN ScanElements(s, SkipSpace(s, after + 1), Append(decoded, object.message), existing)
    ELSE IF s[after] = "]"
    THEN [ok |-> TRUE, messages |-> Append(decoded, object.message), next |-> after + 1]
    ELSE ParseFailed))

\* json.Unmarshal(data, &a.context), for the JSON the model feeds it: an
\* array of objects whose values are strings
UnmarshalMessages(data, existing) ==
    LET open == SkipSpace(data, 1) IN
    IF open > Len(data) \/ data[open] # "[" THEN ParseFailed
    ELSE LET first == SkipSpace(data, open + 1) IN
         With(IF first <= Len(data) /\ data[first] = "]"
              THEN [ok |-> TRUE, messages |-> <<>>, next |-> first + 1]
              ELSE ScanElements(data, first, <<>>, existing),
              LAMBDA array :
                  IF ~array.ok THEN ParseFailed
                  ELSE IF SkipSpace(data, array.next) <= Len(data) THEN ParseFailed
                  ELSE [ok |-> TRUE, messages |-> array.messages])

\* Agent.loadContext: the error of ReadFile or of Unmarshal, or the context
\* as loaded
LoadContext(fs, existing) ==
    IF S_ContextFile \notin DOMAIN fs THEN [ok |-> FALSE, notExist |-> TRUE]
    ELSE IF fs[S_ContextFile].isDir THEN [ok |-> FALSE, notExist |-> FALSE]
    ELSE With(UnmarshalMessages(fs[S_ContextFile].content, existing), LAMBDA parsed :
             IF ~parsed.ok THEN [ok |-> FALSE, notExist |-> FALSE]
             ELSE [ok |-> TRUE, context |-> parsed.messages])

\* NewAgent with a loadContext that appends what it loads to the system
\* message instead of putting it in its place
NewAgentKeepsFresh(fs, order) ==
    With(<<Message("system", SystemMessage(order))>>, LAMBDA fresh :
    With(LoadContext(fs, fresh), LAMBDA loaded :
        IF loaded.ok
        THEN [ok |-> TRUE, context |-> fresh \o loaded.context, loaded |-> TRUE]
        ELSE IF loaded.notExist THEN [ok |-> TRUE, context |-> fresh, loaded |-> FALSE]
        ELSE [ok |-> FALSE]))

\* NewAgent: the context is the system message, or what loadContext puts in
\* its place; an error other than a missing file fails the construction
NewAgent(fs, order) ==
    With(<<Message("system", SystemMessage(order))>>, LAMBDA fresh :
    With(LoadContext(fs, fresh), LAMBDA loaded :
        IF loaded.ok THEN [ok |-> TRUE, context |-> loaded.context, loaded |-> TRUE]
        ELSE IF loaded.notExist THEN [ok |-> TRUE, context |-> fresh, loaded |-> FALSE]
        ELSE [ok |-> FALSE]))

\* Agent.SaveContext: the file system after os.WriteFile(a.contextFile, data, 0644)
SaveContext(fs, messages) ==
    IF S_ContextFile \in DOMAIN fs /\ fs[S_ContextFile].isDir THEN fs
    ELSE WriteFile(fs, S_ContextFile, MarshalIndent(messages), DefaultMode)

----------------------------------------------------------------------------
(* The Gateway, llm.Client.Query, and a run of the agent: Agent.Process    *)
(* called turn after turn.                                                 *)

MaxTurns == 2

\* "Mock Claude response to: ", "API error: status %d" and what the program
\* is given in the runs followed: the operator's lines, the Gateway's first
\* replies and its replies to a tool's result
\* Hello! How can I help?
R_Hello ==
    <<"H", "e", "l", "l", "o", "!", " ", "H", "o", "w", " ", "c", "a", "n", " ", "I", " ", "h",
    "e", "l", "p", "?">>
\* I will use Web_Search for cats
R_WebSearch ==
    <<"I", " ", "w", "i", "l", "l", " ", "u", "s", "e", " ", "W", "e", "b", "_", "S", "e", "a",
    "r", "c", "h", " ", "f", "o", "r", " ", "c", "a", "t", "s">>
\* Let me use the tool
R_UseTheTool ==
    <<"L", "e", "t", " ", "m", "e", " ", "u", "s", "e", " ", "t", "h", "e", " ", "t", "o", "o",
    "l">>
\* file_read g
R_ReadG ==
    <<"f", "i", "l", "e", "_", "r", "e", "a", "d", " ", "g">>
\* file_edit {"file_path":"f","operation":"replace","content":"X\\nY","start_line":2,"end_line":2}
R_EditLines ==
    <<"f", "i", "l", "e", "_", "e", "d", "i", "t", " ", "{", "\"", "f", "i", "l", "e", "_",
    "p", "a", "t", "h", "\"", ":", "\"", "f", "\"", ",", "\"", "o", "p", "e", "r", "a", "t",
    "i", "o", "n", "\"", ":", "\"", "r", "e", "p", "l", "a", "c", "e", "\"", ",", "\"", "c",
    "o", "n", "t", "e", "n", "t", "\"", ":", "\"", "X", "\\", "n", "Y", "\"", ",", "\"", "s",
    "t", "a", "r", "t", "_", "l", "i", "n", "e", "\"", ":", "2", ",", "\"", "e", "n", "d", "_",
    "l", "i", "n", "e", "\"", ":", "2", "}">>
\* file_edit f please
R_EditNoJSON ==
    <<"f", "i", "l", "e", "_", "e", "d", "i", "t", " ", "f", " ", "p", "l", "e", "a", "s",
    "e">>
\* file_search f
R_Search ==
    <<"f", "i", "l", "e", "_", "s", "e", "a", "r", "c", "h", " ", "f">>
\* file_read f, else web_search f
R_Two ==
    <<"f", "i", "l", "e", "_", "r", "e", "a", "d", " ", "f", ",", " ", "e", "l", "s", "e", " ",
    "w", "e", "b", "_", "s", "e", "a", "r", "c", "h", " ", "f">>
\* Try file_read g
R_TryRead ==
    <<"T", "r", "y", " ", "f", "i", "l", "e", "_", "r", "e", "a", "d", " ", "g">>
\* hi
In_Hi ==
    <<"h", "i">>
\* file_read f
In_ReadF ==
    <<"f", "i", "l", "e", "_", "r", "e", "a", "d", " ", "f">>

Inputs == {In_Hi, In_ReadF}

FirstReplies ==
    {R_Hello, R_WebSearch, R_UseTheTool, R_ReadG, R_EditLines, R_EditNoJSON, R_Search, R_Two}

FinalReplies == {R_TryRead}

GatewayErrors == {S_ErrApiStatus \o <<"5", "0", "0">>}

\* [Tool Output]
S_ToolOutput ==
    <<"[", "T", "o", "o", "l", " ", "O", "u", "t", "p", "u", "t", "]", " ">>

\* apiMessages of Client.Query: the loop over the messages appends one map
\* for a user, assistant or tool message and none for any other
ApiMessages(messages) ==
    LET appended(msg) ==
            IF msg.Role = "system" THEN <<>>
            ELSE IF msg.Role = "user" \/ msg.Role = "assistant"
            THEN <<[role |-> msg.Role, content |-> msg.Content]>>
            ELSE IF msg.Role = "tool"
            THEN <<[role |-> "user", content |-> S_ToolOutput \o msg.Content]>>
            ELSE <<>>
    IN  Flatten([k \in 1..Len(messages) |-> appended(messages[k])], 1, Len(messages))

\* systemPrompt of Client.Query: the content of the last system message,
\* or the empty string
SystemPrompt(messages) ==
    LET systems == {k \in 1..Len(messages) : messages[k].Role = "system"} IN
    IF systems = {} THEN <<>>
    ELSE messages[CHOOSE k \in systems : \A j \in systems : j <= k].Content

\* payload of Client.Query: "messages", and "system" where systemPrompt is
\* not empty (an empty system stands for none)
Payload(messages) ==
    [sent |-> TRUE, messages |-> ApiMessages(messages), system |-> SystemPrompt(messages)]

\* what a Query for the transcript sends: without an API key nothing
Sent(transcript) ==
    IF apiKey THEN Payload(ConvertToLLMMessages(transcript)) ELSE NoPayload

\* Client.Query: what it can return.  Without an API key the mock reply;
\* with one, an error of the request or the text of the response
Query(messages, replies) ==
    IF ~apiKey
    THEN {[ok |-> TRUE, text |-> S_MockResponse \o messages[Len(messages)].Content]}
    ELSE {[ok |-> FALSE, err |-> e] : e \in GatewayErrors}
             \cup {[ok |-> TRUE, text |-> r] : r \in replies}

\* the working directory of the run: a regular file f, no g
AgentFileSystem ==
    [p \in {S_dot, <<"f">>} |->
        IF p = S_dot THEN Directory
        ELSE [isDir |-> FALSE, content |-> <<"A", "\n", "B", "\n", "C">>, mode |-> "0600"]]

\* the transcript an earlier run has saved after its only turn had failed
\* at the Gateway
SavedContext ==
    <<Message("system", SystemMessage(<<S_web_search, S_file_search, S_file_read, S_file_edit>>)),
      Message("user", In_Hi)>>

\* the working directory when main starts: without conversation.json, or
\* with the one the earlier run has saved
InitFiles == {AgentFileSystem, SaveContext(AgentFileSystem, SavedContext)}

\* Agent.context as NewAgent leaves it: the system message when there is
\* no conversation.json, or the transcript loaded from it
InitContexts ==
    {NewAgent(fs, order).context : fs \in InitFiles, order \in RegistryOrders}

\* the content of conversation.json, or that there is none
Stored(fs) ==
    IF S_ContextFile \in DOMAIN fs /\ ~fs[S_ContextFile].isDir
    THEN [exists |-> TRUE, data |-> fs[S_ContextFile].content]
    ELSE [exists |-> FALSE, data |-> <<>>]

\* the first run of main, as NewAgent has started it
FirstRun(fs) == [n |-> 1, how |-> "first", atStart |-> Stored(fs), saved |-> <<>>]

\* main after NewAgent, before the first line is read
Init ==
    /\ files \in InitFiles
    /\ call = NoCall
    /\ \E order \in RegistryOrders : context = NewAgent(files, order).context
    /\ apiKey \in BOOLEAN
    /\ pc = "idle"
    /\ turn = NoTurn
    /\ run = FirstRun(files)

\* AppendMessage overwriting the last message instead of appending
ReplaceLastMessage(messages, role, content) ==
    IF messages = <<>> THEN <<Message(role, content)>>
    ELSE [messages EXCEPT ![Len(messages)] = Message(role, content)]

\* a.context = append(a.context, Message{Role: role, Content: content})
AppendMessage(messages, role, content) == Append(messages, Message(role, content))

\* Process until the first Query is under way: the user message is appended
Process(input) ==
    /\ pc = "idle"
    /\ turn.n < MaxTurns
    /\ context' = AppendMessage(context, "user", input)
    /\ pc' = "query1"
    /\ turn' = [NoTurn EXCEPT !.n = turn.n + 1, !.prior = context, !.input = input,
                              !.status = "running"]
    /\ UNCHANGED <<files, call, apiKey, run>>

\* QueryFailed taking the turn's messages back
QueryFailedRollsBack(response, at) ==
    /\ pc' = "idle"
    /\ turn' = [turn EXCEPT !.queries = @ + 1, !.payload = Sent(context),
                            !.status = "failed", !.failedAt = at,
                            !.err = response.err]
    /\ context' = turn.prior

\* a Query has failed: return "", err
QueryFailed(response, at) ==
    /\ pc' = "idle"
    /\ turn' = [turn EXCEPT !.queries = @ + 1, !.payload = Sent(context),
                            !.status = "failed", !.failedAt = at,
                            !.err = response.err]
    /\ UNCHANGED context

\* the reply asks for a tool: it is appended and the tool is taken up
ToolRequested(response) ==
    \E toolName \in DetectToolName(response.text) :
        /\ pc' = "tool"
        /\ context' = AppendMessage(context, "assistant", response.text)
        /\ turn' = [turn EXCEPT !.queries = @ + 1, !.payload = Sent(context),
                                !.reply = response.text,
                                !.toolName = toolName]

\* ReplyReturned without the append of the reply
ReplyReturnedUnrecorded(response) ==
    /\ pc' = "idle"
    /\ UNCHANGED context
    /\ turn' = [turn EXCEPT !.queries = @ + 1, !.payload = Sent(context),
                            !.reply = response.text,
                            !.status = "returned", !.ret = response.text]

\* no tool needed: the reply is appended and returned
ReplyReturned(response) ==
    /\ pc' = "idle"
    /\ context' = AppendMessage(context, "assistant", response.text)
    /\ turn' = [turn EXCEPT !.queries = @ + 1, !.payload = Sent(context),
                            !.reply = response.text,
                            !.status = "returned", !.ret = response.text]

\* the first Query returns, the Gateway choosing among replies
FirstQueryFrom(replies) ==
    /\ pc = "query1"
    /\ \E response \in Query(ConvertToLLMMessages(context), replies) :
        IF ~response.ok THEN QueryFailed(response, "query1")
        ELSE IF ShouldUseTool(response.text) THEN ToolRequested(response)
        ELSE ReplyReturned(response)
    /\ UNCHANGED <<files, call, apiKey, run>>

FirstQuery == FirstQueryFrom(FirstReplies)

\* ToolFailed going on to the second Query with the error as the output
ToolFailedQueriesAgain(result, executed) ==
    /\ pc' = "query2"
    /\ turn' = [turn EXCEPT !.executions = @ + executed, !.toolOut = result.err]
    /\ UNCHANGED context

\* ToolFailed appending a tool message before it returns
ToolFailedAfterToolMessage(result, executed) ==
    /\ pc' = "idle"
    /\ turn' = [turn EXCEPT !.executions = @ + executed, !.status = "failed",
                            !.failedAt = "tool",
                            !.err = S_ToolExecutionError \o result.err]
    /\ context' = AppendMessage(context, "tool",
                      S_ToolQuote \o turn.toolName \o S_ToolReturned \o result.out)

\* executeTool has failed: return "", fmt.Errorf("tool execution error: %w", err)
ToolFailed(result, executed) ==
    /\ pc' = "idle"
    /\ turn' = [turn EXCEPT !.executions = @ + executed, !.status = "failed",
                            !.failedAt = "tool",
                            !.err = S_ToolExecutionError \o result.err]
    /\ UNCHANGED context

\* the tool has returned: its message is appended and the second Query made
ToolReturned(result, executed) ==
    /\ pc' = "query2"
    /\ context' = AppendMessage(context, "tool",
                      S_ToolQuote \o turn.toolName \o S_ToolReturned \o result.out)
    /\ turn' = [turn EXCEPT !.executions = @ + executed, !.toolOut = result.out]

\* extractToolInput panics: Process does not return, the deferred
\* ag.SaveContext() of main runs and the process ends
ToolPanicked ==
    /\ pc' = "panicked"
    /\ files' = SaveContext(files, context)
    /\ turn' = [turn EXCEPT !.status = "panicked", !.failedAt = "tool"]
    /\ run' = [run EXCEPT !.saved = context]
    /\ UNCHANGED context

\* executeTool returns, or panics
ToolCall ==
    /\ pc = "tool"
    /\ IF turn.toolName \in ToolNames /\ ExtractPanics(turn.toolName, turn.reply)
       THEN ToolPanicked
       ELSE LET result == ExecuteTool(files, turn.toolName, turn.reply)
                executed == IF turn.toolName \in ToolNames THEN 1 ELSE 0
            IN  /\ files' = result.fs
                /\ IF ~result.ok THEN ToolFailed(result, executed)
                   ELSE ToolReturned(result, executed)
                /\ UNCHANGED run
    /\ UNCHANGED <<call, apiKey>>

\* FinalReturned returning the first reply
FinalReturnedFirstReply(response) ==
    /\ pc' = "idle"
    /\ context' = AppendMessage(context, "assistant", response.text)
    /\ turn' = [turn EXCEPT !.queries = @ + 1, !.payload = Sent(context),
                            !.final = response.text,
                            !.status = "returned", !.ret = turn.reply]

\* the final reply is appended and returned
FinalReturned(response) ==
    /\ pc' = "idle"
    /\ context' = AppendMessage(context, "assistant", response.text)
    /\ turn' = [turn EXCEPT !.queries = @ + 1, !.payload = Sent(context),
                            !.final = response.text,
                            !.status = "returned", !.ret = response.text]

\* the second Query returns
SecondQuery ==
    /\ pc = "query2"
    /\ \E response \in Query(ConvertToLLMMessages(context), FinalReplies) :
        IF ~response.ok THEN QueryFailed(response, "query2")
        ELSE FinalReturned(response)
    /\ UNCHANGED <<files, call, apiKey, run>>

Next ==
    \/ \E input \in Inputs : Process(input)
    \/ FirstQuery
    \/ ToolCall
    \/ SecondQuery

Spec == Init /\ [][Next]_vars

----------------------------------------------------------------------------
(* The runs of main: NewAgent, the loop of Process calls, the deferred     *)
(* SaveContext when the loop ends, and the next start of the program.      *)

MaxRuns == 2

\* file_edit {"file_path":"conversation.json","operation":"replace","content":"[{\"role\":\"note\",\"content\":\"x\"}]"}
R_ReplaceConversation ==
    <<"f", "i", "l", "e", "_", "e", "d", "i", "t", " ", "{", "\"", "f", "i", "l", "e", "_",
    "p", "a", "t", "h", "\"", ":", "\"", "c", "o", "n", "v", "e", "r", "s", "a", "t", "i", "o",
    "n", ".", "j", "s", "o", "n", "\"", ",", "\"", "o", "p", "e", "r", "a", "t", "i", "o", "n",
    "\"", ":", "\"", "r", "e", "p", "l", "a", "c", "e", "\"", ",", "\"", "c", "o", "n", "t",
    "e", "n", "t", "\"", ":", "\"", "[", "{", "\\", "\"", "r", "o", "l", "e", "\\", "\"", ":",
    "\\", "\"", "n", "o", "t", "e", "\\", "\"", ",", "\\", "\"", "c", "o", "n", "t", "e", "n",
    "t", "\\", "\"", ":", "\\", "\"", "x", "\\", "\"", "}", "]", "\"", "}">>

\* a line with a byte that is not UTF-8
In_Invalid == <<"h", "i", "0xFF">>

\* a line that ends with a tool's name after a byte that is not UTF-8
In_InvalidThenName ==
    <<"0xFF", " ", "w", "e", "b", "_", "s", "e", "a", "r", "c", "h">>

LifeInputs == {In_Invalid, In_InvalidThenName}

LifeReplies == {R_Hello, R_ReplaceConversation}

\* "exit" or the end of the input: the loop ends and the deferred
\* ag.SaveContext() runs
Exit ==
    /\ pc = "idle"
    /\ files' = SaveContext(files, context)
    /\ pc' = "exited"
    /\ run' = [run EXCEPT !.saved = context]
    /\ UNCHANGED <<call, context, apiKey, turn>>

\* the process is killed: nothing deferred runs
Kill ==
    /\ pc \in {"idle", "query1", "tool", "query2"}
    /\ pc' = "killed"
    /\ UNCHANGED <<files, call, context, apiKey, turn, run>>

\* main is started again: NewAgent, or "Failed to initialize agent" and
\* os.Exit(1)
Restart ==
    /\ pc \in {"exited", "killed", "panicked"}
    /\ run.n < MaxRuns
    /\ \E order \in RegistryOrders :
        LET agent == NewAgent(files, order) IN
        IF agent.ok
        THEN /\ context' = agent.context
             /\ pc' = "idle"
        ELSE /\ context' = <<>>
             /\ pc' = "failed"
    /\ turn' = NoTurn
    /\ run' = [run EXCEPT !.n = @ + 1, !.how = pc, !.atStart = Stored(files)]
    /\ UNCHANGED <<files, call, apiKey>>

InitLife ==
    /\ files = AgentFileSystem
    /\ call = NoCall
    /\ \E order \in RegistryOrders : context = NewAgent(files, order).context
    /\ apiKey \in BOOLEAN
    /\ pc = "idle"
    /\ turn = NoTurn
    /\ run = FirstRun(files)

NextLife ==
    \/ \E input \in LifeInputs : Process(input)
    \/ FirstQueryFrom(LifeReplies)
    \/ ToolCall
    \/ SecondQuery
    \/ Exit
    \/ Kill
    \/ Restart

SpecLife == InitLife /\ [][NextLife]_vars

\* the runs that end with the deferred SaveContext: by "exit" or the end of
\* the input, or by a panic
NextRuns ==
    \/ \E input \in LifeInputs : Process(input)
    \/ FirstQueryFrom(LifeReplies)
    \/ ToolCall
    \/ SecondQuery
    \/ Exit
    \/ Restart

SpecRuns == InitLife /\ [][NextRuns]_vars

----------------------------------------------------------------------------
(* The first turn of a run over a larger set of replies of the Gateway:    *)
(* what shouldUseTool, detectToolName and extractToolInput make of a       *)
(* reply, and what the tool is then given.                                 *)

MaxTail == 4

\* Please Use The Tool
R_UseTheToolCapitals ==
    <<"P", "l", "e", "a", "s", "e", " ", "U", "s", "e", " ", "T", "h", "e", " ", "T", "o", "o",
    "l">>
\* use the force
R_UseTheForce ==
    <<"u", "s", "e", " ", "t", "h", "e", " ", "f", "o", "r", "c", "e">>
\* a tool would help
R_AToolOnly ==
    <<"a", " ", "t", "o", "o", "l", " ", "w", "o", "u", "l", "d", " ", "h", "e", "l", "p">>
\* FILE_READ f
R_UpperFileRead ==
    <<"F", "I", "L", "E", "_", "R", "E", "A", "D", " ", "f">>
\* file_edit {"file_path":"g","operation":"append","content":"X"} or {}
R_EditThenBraces ==
    <<"f", "i", "l", "e", "_", "e", "d", "i", "t", " ", "{", "\"", "f", "i", "l", "e", "_",
    "p", "a", "t", "h", "\"", ":", "\"", "g", "\"", ",", "\"", "o", "p", "e", "r", "a", "t",
    "i", "o", "n", "\"", ":", "\"", "a", "p", "p", "e", "n", "d", "\"", ",", "\"", "c", "o",
    "n", "t", "e", "n", "t", "\"", ":", "\"", "X", "\"", "}", " ", "o", "r", " ", "{", "}">>
\* file_edit } then {
R_EditCloseBeforeOpen ==
    <<"f", "i", "l", "e", "_", "e", "d", "i", "t", " ", "}", " ", "t", "h", "e", "n", " ",
    "{">>
\* file_edit {"file_path":"g"
R_EditOpenOnly ==
    <<"f", "i", "l", "e", "_", "e", "d", "i", "t", " ", "{", "\"", "f", "i", "l", "e", "_",
    "p", "a", "t", "h", "\"", ":", "\"", "g", "\"">>
\* file_edit "operation":"append"}
R_EditCloseOnly ==
    <<"f", "i", "l", "e", "_", "e", "d", "i", "t", " ", "\"", "o", "p", "e", "r", "a", "t",
    "i", "o", "n", "\"", ":", "\"", "a", "p", "p", "e", "n", "d", "\"", "}">>
\* Use file_search: f
R_SearchColon ==
    <<"U", "s", "e", " ", "f", "i", "l", "e", "_", "s", "e", "a", "r", "c", "h", ":", " ",
    "f">>
\* file_read using f
R_ReadUsing ==
    <<"f", "i", "l", "e", "_", "r", "e", "a", "d", " ", "u", "s", "i", "n", "g", " ", "f">>
\* a byte that is not UTF-8, then: web_search cats
R_InvalidThenSearch ==
    <<"0xFF", " ", "w", "e", "b", "_", "s", "e", "a", "r", "c", "h", " ", "c", "a", "t", "s">>
\* a byte that is not UTF-8, then: web_search
R_InvalidThenName ==
    <<"0xFF", " ", "w", "e", "b", "_", "s", "e", "a", "r", "c", "h">>

\* what may follow the tool's name in a reply, up to MaxTail bytes
TailAlphabet == {"t", "o", " "}

\* web_search followed by a tail
SearchReplies == {S_web_search \o tail : tail \in StringsUpTo(TailAlphabet, MaxTail)}

DetectReplies ==
    FirstReplies \cup SearchReplies \cup
    {R_UseTheToolCapitals, R_UseTheForce, R_AToolOnly, R_UpperFileRead, R_EditThenBraces,
     R_EditCloseBeforeOpen, R_EditOpenOnly, R_EditCloseOnly, R_SearchColon, R_ReadUsing,
     R_InvalidThenSearch, R_InvalidThenName}

DetectInputs == {In_Hi, In_ReadF}

\* main after NewAgent in a working directory without conversation.json
InitDetect ==
    /\ files = AgentFileSystem
    /\ call = NoCall
    /\ \E order \in RegistryOrders : context = NewAgent(files, order).context
    /\ apiKey \in BOOLEAN
    /\ pc = "idle"
    /\ turn = NoTurn
    /\ run = FirstRun(files)

\* the first call of Process in the run
FirstTurn(input) == turn.n = 0 /\ Process(input)

\* the first Query of the turn, the Gateway choosing among DetectReplies
DetectQuery == FirstQueryFrom(DetectReplies)

NextDetect ==
    \/ \E input \in DetectInputs : FirstTurn(input)
    \/ DetectQuery
    \/ ToolCall
    \/ SecondQuery

SpecDetect == InitDetect /\ [][NextDetect]_vars

----------------------------------------------------------------------------
(* The claims about Agent.Process, under Spec.  turn.prior is the          *)
(* transcript Process found, turn.reply the first reply of the Gateway and *)
(* turn.final its reply to the tool's result.                              *)

\* Tool 'web_search' returned: Mock search results for 'cats': [Result 1, Result 2, Result 3]
S_Example_ToolMessage ==
    <<"T", "o", "o", "l", " ", "'", "w", "e", "b", "_", "s", "e", "a", "r", "c", "h", "'", " ",
    "r", "e", "t", "u", "r", "n", "e", "d", ":", " ", "M", "o", "c", "k", " ", "s", "e", "a",
    "r", "c", "h", " ", "r", "e", "s", "u", "l", "t", "s", " ", "f", "o", "r", " ", "'", "c",
    "a", "t", "s", "'", ":", " ", "[", "R", "e", "s", "u", "l", "t", " ", "1", ",", " ", "R",
    "e", "s", "u", "l", "t", " ", "2", ",", " ", "R", "e", "s", "u", "l", "t", " ", "3", "]">>
\* tool execution error: file not found: g
S_Example_NotFound ==
    <<"t", "o", "o", "l", " ", "e", "x", "e", "c", "u", "t", "i", "o", "n", " ", "e", "r", "r",
    "o", "r", ":", " ", "f", "i", "l", "e", " ", "n", "o", "t", " ", "f", "o", "u", "n", "d",
    ":", " ", "g">>

\* Process has returned
TurnOver == pc = "idle" /\ turn.status \in {"returned", "failed"}

\* s is the start of t
IsPrefix(s, t) == Len(s) <= Len(t) /\ SubSeq(t, 1, Len(s)) = s

\* the replies the Gateway of the run could have given to the first Query
PossibleFirstReplies ==
    IF apiKey THEN FirstReplies ELSE {S_MockResponse \o turn.input}

C1_Case ==
    /\ TurnOver
    /\ turn.status = "returned"
    /\ ~ShouldUseTool(turn.reply)

\* C1: a turn whose first Query succeeds with a reply that does not trigger
\* tool-need detection has made one Query and executed no tool, has appended
\* to the transcript it found the message {user, input} and then the message
\* {assistant, reply}, and has returned that reply.
C1_NoToolTurn ==
    /\ C1_Case =>
        /\ turn.queries = 1
        /\ turn.executions = 0
        /\ turn.reply \in PossibleFirstReplies
        /\ context = turn.prior \o <<[Role |-> "user", Content |-> turn.input],
                                     [Role |-> "assistant", Content |-> turn.reply]>>
        /\ turn.ret = turn.reply
    /\ (TurnOver /\ turn.queries = 1 /\ turn.executions = 0 /\ turn.status = "returned")
        => ~ShouldUseTool(turn.reply)

C1_Witness ==
    /\ C1_Case
    /\ turn.n = 2
    /\ turn.reply = R_Hello
    /\ Len(turn.prior) = 5
    /\ Len(context) = 7

C2_Case ==
    /\ TurnOver
    /\ turn.status = "returned"
    /\ ShouldUseTool(turn.reply)

\* C2: a turn whose first reply triggers tool-need detection, and whose tool
\* and two Queries succeed, has made two Queries and executed one registered
\* tool, has appended {user, input}, {assistant, first reply},
\* {tool, "Tool '<name>' returned: <output>"} and {assistant, final reply} in
\* this order, and has returned the final reply.
C2_ToolTurn ==
    C2_Case =>
        /\ turn.queries = 2
        /\ turn.executions = 1
        /\ turn.toolName \in ToolNames
        /\ turn.reply \in PossibleFirstReplies
        /\ context = turn.prior \o
              <<[Role |-> "user", Content |-> turn.input],
                [Role |-> "assistant", Content |-> turn.reply],
                [Role |-> "tool",
                 Content |-> S_ToolQuote \o turn.toolName \o S_ToolReturned \o turn.toolOut],
                [Role |-> "assistant", Content |-> turn.final]>>
        /\ turn.ret = turn.final
        /\ turn.reply = R_WebSearch
           => context[Len(context) - 1].Content = S_Example_ToolMessage

C2_Witness ==
    /\ C2_Case
    /\ turn.n = 2
    /\ turn.reply = R_WebSearch
    /\ turn.final = R_TryRead
    /\ turn.ret = R_TryRead
    /\ context[Len(context) - 1].Content = S_Example_ToolMessage

C3_Case == TurnOver /\ turn.failedAt \in {"query1", "query2"}

\* C3: a turn whose Query fails returns the Gateway's error and takes
\* nothing back: after a failed first Query the transcript is the one found
\* plus the user message; after a failed second Query it is the one found
\* plus the user message, the assistant's tool request and the tool message,
\* with no final assistant message.
C3_GatewayFailureKeepsMessages ==
    C3_Case =>
        /\ turn.status = "failed"
        /\ turn.err \in GatewayErrors
        /\ turn.ret = <<>>
        /\ turn.failedAt = "query1" =>
            /\ turn.queries = 1
            /\ turn.executions = 0
            /\ context = turn.prior \o <<[Role |-> "user", Content |-> turn.input]>>
        /\ turn.failedAt = "query2" =>
            /\ turn.queries = 2
            /\ turn.executions = 1
            /\ context = turn.prior \o
                  <<[Role |-> "user", Content |-> turn.input],
                    [Role |-> "assistant", Content |-> turn.reply],
                    [Role |-> "tool",
                     Content |-> S_ToolQuote \o turn.toolName \o S_ToolReturned
                                     \o turn.toolOut]>>

\* the second turn fails at its second Query after the first turn had failed
\* at its first
C3_Witness ==
    /\ C3_Case
    /\ turn.n = 2
    /\ turn.failedAt = "query2"
    /\ turn.prior[Len(turn.prior)].Role = "user"
    /\ context[Len(context)].Role = "tool"

C4_Case == TurnOver /\ turn.failedAt = "tool"

\* C4: a turn whose tool dispatch or execution fails returns an error after
\* the assistant's tool request has been appended: the transcript is the one
\* found plus {user, input} and {assistant, first reply}, without a tool
\* message, and no second Query is made.
C4_ToolFailureKeepsRequest ==
    C4_Case =>
        /\ turn.status = "failed"
        /\ turn.err # <<>>
        /\ turn.ret = <<>>
        /\ turn.queries = 1
        /\ ShouldUseTool(turn.reply)
        /\ context = turn.prior \o <<[Role |-> "user", Content |-> turn.input],
                                     [Role |-> "assistant", Content |-> turn.reply]>>
        /\ \A i \in (Len(turn.prior) + 1)..Len(context) : context[i].Role # "tool"
        /\ turn.reply = R_ReadG => turn.err = S_Example_NotFound

C4_Witness ==
    /\ C4_Case
    /\ turn.n = 2
    /\ turn.reply = R_ReadG
    /\ turn.err = S_Example_NotFound

\* C5: the transcript is append-only: every step of a run, in a successful
\* or failed turn, with or without a tool, leaves the transcript it found as
\* the start of the transcript it leaves.
C5_TranscriptAppendOnly == [][IsPrefix(context, context')]_vars

\* two turns that used a tool: eight messages appended
C5_Witness ==
    /\ TurnOver
    /\ turn.n = 2
    /\ Len(turn.prior) = 5
    /\ Len(context) = 9
    /\ IsPrefix(turn.prior, context)


\* the message that folds the tool's output into the transcript
ToolMessage ==
    [Role |-> "tool",
     Content |-> S_ToolQuote \o turn.toolName \o S_ToolReturned \o turn.toolOut]

\* C20: a turn makes at most two Queries and executes at most one tool, one
\* after the other: the tool is executed only when the first Query has
\* returned and the assistant's tool request is the last message of the
\* transcript, and the second Query is made only when the tool has returned
\* without error, on a transcript whose last message is the tool message.
C20_TurnStepsInSequence ==
    /\ turn.queries <= 2
    /\ turn.executions <= 1
    /\ pc = "query1" => turn.queries = 0 /\ turn.executions = 0
    /\ pc = "tool" =>
        /\ turn.queries = 1
        /\ turn.executions = 0
        /\ context = turn.prior \o <<[Role |-> "user", Content |-> turn.input],
                                     [Role |-> "assistant", Content |-> turn.reply]>>
    /\ pc = "query2" =>
        /\ turn.queries = 1
        /\ turn.executions = 1
        /\ turn.failedAt = "none"
        /\ context[Len(context)] = ToolMessage
        /\ ConvertToLLMMessages(context)[Len(context)].Content = ToolMessage.Content
    /\ turn.executions = 1 => turn.queries >= 1
    /\ turn.queries = 2 => turn.executions = 1 /\ turn.failedAt # "tool"

\* the second turn has executed file_read and is about to make its second
\* Query
C20_Witness ==
    /\ pc = "query2"
    /\ turn.n = 2
    /\ turn.toolName = S_file_read
    /\ turn.queries = 1
    /\ turn.executions = 1
    /\ context[Len(context)].Role = "tool"
----------------------------------------------------------------------------
(* The claims about FileEditTool.Execute, under SpecEdit.  call.before is  *)
(* the file system the last call found and files the one it left.          *)

EditedPath == call.request.FilePath

\* the last call found a regular file at its path
FoundRegularFile ==
    /\ call.n >= 1
    /\ EditedPath \in DOMAIN call.before
    /\ ~call.before[EditedPath].isDir

OldContent == call.before[EditedPath].content
OldLines == Split(OldContent, "\n")

\* A\nB\nC
S_Example_A_B_C ==
    <<"A", "\n", "B", "\n", "C">>
\* A\nX\nY\nC
S_Example_A_X_Y_C ==
    <<"A", "\n", "X", "\n", "Y", "\n", "C">>
\* start_line out of range: valid range is 1-3
S_Example_Range_1_3 ==
    <<"s", "t", "a", "r", "t", "_", "l", "i", "n", "e", " ", "o", "u", "t", " ", "o", "f", " ",
    "r", "a", "n", "g", "e", ":", " ", "v", "a", "l", "i", "d", " ", "r", "a", "n", "g", "e",
    " ", "i", "s", " ", "1", "-", "3">>
\* A\nB
S_Example_A_B ==
    <<"A", "\n", "B">>

C6_Case ==
    /\ FoundRegularFile
    /\ call.request.Operation = S_replace
    /\ 1 <= call.request.StartLine
    /\ call.request.StartLine <= call.request.EndLine
    /\ call.request.EndLine <= Len(OldLines)

\* C6: a replace with 1 <= start_line <= end_line <= lineCount on an existing
\* regular file succeeds and leaves the old lines 1..start_line-1, the lines
\* of content and the old lines end_line+1..lineCount, joined by newline;
\* start_line=2, end_line=2 on "A\nB\nC" with content "X\nY" leaves
\* "A\nX\nY\nC".
C6_RangeReplaceSplices ==
    C6_Case =>
        /\ call.ok
        /\ files[EditedPath].content =
               Join(SubSeq(OldLines, 1, call.request.StartLine - 1)
                        \o Split(call.request.Content, "\n")
                        \o SubSeq(OldLines, call.request.EndLine + 1, Len(OldLines)),
                    "\n")
        /\ (/\ OldContent = S_Example_A_B_C
            /\ call.request.StartLine = 2
            /\ call.request.EndLine = 2
            /\ call.request.Content = <<"X", "\n", "Y">>)
           => files[EditedPath].content = S_Example_A_X_Y_C

C6_Witness ==
    /\ C6_Case
    /\ OldContent = S_Example_A_B_C
    /\ call.request.StartLine = 2
    /\ call.request.EndLine = 2
    /\ call.request.Content = <<"X", "\n", "Y">>
    /\ files[EditedPath].content = S_Example_A_X_Y_C

C7_Case ==
    /\ FoundRegularFile
    /\ call.request.Operation = S_replace
    /\ ~(call.request.StartLine = 0 /\ call.request.EndLine = 0)
    /\ (call.request.StartLine < 1 \/ call.request.StartLine > Len(OldLines))

\* C7: a replace with a line range on an existing regular file of n lines
\* whose start_line is below 1 or above n fails with the range error that
\* states the valid range 1-n and leaves the file system as it was;
\* start_line=5 on a file of 3 lines states 1-3.
C7_StartLineOutOfRangeFails ==
    C7_Case =>
        /\ ~call.ok
        /\ call.err = S_ErrStartLine \o Itoa(Len(OldLines))
        /\ files = call.before
        /\ (call.request.StartLine = 5 /\ Len(OldLines) = 3)
           => call.err = S_Example_Range_1_3

C7_Witness ==
    /\ C7_Case
    /\ call.request.StartLine = 5
    /\ OldContent = S_Example_A_B_C
    /\ call.err = S_Example_Range_1_3
    /\ files = call.before

C8_Case ==
    /\ FoundRegularFile
    /\ call.request.Operation = S_append

C8_Appended ==
    IF OldContent # <<>> /\ OldContent[Len(OldContent)] = "\n"
    THEN OldContent \o call.request.Content
    ELSE OldContent \o <<"\n">> \o call.request.Content

\* C8: an append on an existing regular file leaves current ++ content when
\* current ends with a newline and current ++ "\n" ++ content otherwise, so
\* the byte before the appended block is a newline; "A" + "B" and "A\n" + "B"
\* both leave "A\nB".
C8_AppendStartsOnOwnLine ==
    C8_Case =>
        /\ call.ok
        /\ files[EditedPath].content = C8_Appended
        /\ LET new == files[EditedPath].content
               at  == Len(new) - Len(call.request.Content)
           IN  /\ at >= 1
               /\ new[at] = "\n"
               /\ SubSeq(new, at + 1, Len(new)) = call.request.Content
        /\ (OldContent \in {<<"A">>, <<"A", "\n">>} /\ call.request.Content = <<"B">>)
           => files[EditedPath].content = S_Example_A_B

C8_Witness ==
    /\ C8_Case
    /\ OldContent = <<"A">>
    /\ call.request.Content = <<"B">>
    /\ files[EditedPath].content = S_Example_A_B

C9_Case ==
    /\ call.n >= 1
    /\ EditedPath # <<>>
    /\ call.request.Operation # <<>>
    /\ EditedPath \notin DOMAIN call.before

C10_Case ==
    /\ FoundRegularFile
    /\ call.request.Operation = S_replace
    /\ call.request.StartLine = 0
    /\ call.request.EndLine = 0

\* C10: a replace with start_line and end_line both zero on an existing
\* regular file leaves exactly content as the file's content, whatever the
\* file held; "A\nB\nC" with content "X" becomes "X".
C10_ReplaceWithoutRangeSetsContent ==
    C10_Case =>
        /\ call.ok
        /\ files[EditedPath].content = call.request.Content

C10_Witness ==
    /\ C10_Case
    /\ OldContent = S_Example_A_B_C
    /\ call.request.Content = <<"X">>
    /\ files[EditedPath].content = <<"X">>


\* the last two calls were the same replace without a line range
C11_Case ==
    /\ call.n = 2
    /\ call.request.FilePath # <<>>
    /\ call.request.Operation = S_replace
    /\ call.request.StartLine = 0
    /\ call.request.EndLine = 0

\* C11: the same replace without a line range executed twice in a row
\* leaves after the second call the file content the first call left,
\* whether the path held a file before the first call or not (where the
\* first call created no file, neither does the second).
C11_FullReplaceIdempotent ==
    C11_Case =>
        /\ (EditedPath \in DOMAIN files) = (EditedPath \in DOMAIN call.first)
        /\ EditedPath \in DOMAIN files =>
               files[EditedPath].content = call.first[EditedPath].content
        /\ files = call.first

\* the path g did not exist: the first call created it, the second found it
C11_Witness ==
    /\ C11_Case
    /\ EditedPath = <<"g">>
    /\ call.ok
    /\ files[EditedPath].content = <<"X", "\n", "Y">>
    /\ call.before = call.first

\* unsupported operation: delete. Use 'replace' or 'append'
S_Example_UnsupportedDelete ==
    S_ErrUnsupported \o S_delete \o S_UseReplaceOrAppend

C12_Case ==
    /\ FoundRegularFile
    /\ call.request.Operation \notin {<<>>, S_replace, S_append}

\* C12: on an existing regular file an operation that is not empty and is
\* neither "replace" nor "append" fails with the unsupported-operation error
\* that names the operation received, and the file is left as it was.
C12_UnsupportedOperationFails ==
    C12_Case =>
        /\ ~call.ok
        /\ call.err = S_ErrUnsupported \o call.request.Operation \o S_UseReplaceOrAppend
        /\ Contains(call.err, call.request.Operation)
        /\ files = call.before

C12_Witness ==
    /\ C12_Case
    /\ call.n = 1
    /\ call.request.Operation = S_delete
    /\ call.err = S_Example_UnsupportedDelete
    /\ OldContent = S_Example_A_B_C

C13_Case ==
    /\ FoundRegularFile
    /\ call.request.Operation = S_replace
    /\ 1 <= call.request.StartLine
    /\ call.request.StartLine <= Len(OldLines)
    /\ \/ call.request.EndLine < call.request.StartLine
       \/ call.request.EndLine > Len(OldLines)

\* C13: a replace with 1 <= start_line <= lineCount and an end_line below
\* start_line (zero included) or above lineCount succeeds, with end_line
\* taken as lineCount: the old lines 1..start_line-1 are kept and all lines
\* from start_line to the end of the file are replaced by the lines of
\* content.
C13_EndLineClampedToLineCount ==
    C13_Case =>
        /\ call.ok
        /\ files[EditedPath].content =
               Join(SubSeq(OldLines, 1, call.request.StartLine - 1)
                        \o Split(call.request.Content, "\n"),
                    "\n")

\* start_line=2 and end_line=1 on "A\nB\nC" with content "X" leaves "A\nX"
C13_Witness ==
    /\ C13_Case
    /\ OldContent = S_Example_A_B_C
    /\ call.request.StartLine = 2
    /\ call.request.EndLine = 1
    /\ call.request.Content = <<"X">>
    /\ files[EditedPath].content = <<"A", "\n", "X">>
----------------------------------------------------------------------------
(* The claims about the conversation file, under SpecLife.                 *)

\* main has just started again after a run that ended with SaveContext
StartedFromSaved == pc = "idle" /\ turn.n = 0 /\ run.how \in {"exited", "panicked"}

\* every byte of every message is a byte of a rune
ValidUTF8(messages) ==
    \A k \in 1..Len(messages) :
        \A p \in 1..Len(messages[k].Content) :
            messages[k].Content[p] \in HighBytes => InRune(messages[k].Content, p)

\* C14: the transcript that SaveContext has written and NewAgent has then
\* loaded into a new agent is the transcript that was saved: the same
\* messages, roles and contents in the same order.
C14_SaveThenLoadIsIdentity ==
    StartedFromSaved =>
        /\ Len(context) = Len(run.saved)
        /\ \A k \in 1..Len(context) :
            /\ context[k].Role = run.saved[k].Role
            /\ context[k].Content = run.saved[k].Content

\* Agent.Process is at work, or main waits for a line
InRun(where) == where \in {"idle", "query1", "tool", "query2"}

\* C15: conversation.json changes only when SaveContext runs at exit: no
\* step of a Process call changes it, the exit leaves in it the whole
\* transcript in memory, and a run that ends without SaveContext leaves it
\* as it was when the run started.
C15_StoredOnlyAtExit ==
    [][/\ (InRun(pc) /\ InRun(pc')) => Stored(files') = Stored(files)
       /\ pc' = "exited" =>
            /\ Stored(files').exists
            /\ Stored(files').data = MarshalIndent(context)
       /\ pc' = "killed" => Stored(files') = run.atStart]_vars

\* the messages of a transcript that are no system messages, in their order
NonSystem(transcript) == SelectSeq(transcript, LAMBDA msg : msg.Role # "system")

\* what the claim has the Gateway transmit for a message
Transmitted(msg) ==
    IF msg.Role = "tool" THEN [role |-> "user", content |-> S_ToolOutput \o msg.Content]
    ELSE [role |-> msg.Role, content |-> msg.Content]

\* C21: a Query with credentials sends, for the transcript it is given, the
\* messages that are no system messages, in their order, a tool message as a
\* user message with "[Tool Output] " before its content and every other one
\* with its role and content; the system instruction it sends, if any, is
\* the content of one system message of the transcript
C21_GatewayRoleMapping ==
    [][(pc \in {"query1", "query2"} /\ apiKey /\ turn'.queries = turn.queries + 1) =>
          /\ turn'.payload.sent
          /\ Len(turn'.payload.messages) = Len(NonSystem(context))
          /\ \A i \in 1..Len(NonSystem(context)) :
                i <= Len(turn'.payload.messages)
                    => turn'.payload.messages[i] = Transmitted(NonSystem(context)[i])
          /\ \/ turn'.payload.system = <<>>
             \/ \E k \in 1..Len(context) :
                    context[k].Role = "system" /\ turn'.payload.system = context[k].Content]_vars

\* the transcript has one system message, its first
OneSystemFirst(transcript) ==
    /\ transcript # <<>>
    /\ \A k \in 1..Len(transcript) : transcript[k].Role = "system" <=> k = 1

\* the step is one of a turn, not the start of the program
StepOfTurn == InRun(pc) /\ InRun(pc')

\* C23: from a start without conversation.json, through runs that end with
\* SaveContext and start again with loadContext, the transcript has one
\* system message, its first; a step of a turn leaves the transcript as it
\* is or appends one message of role user, assistant or tool; and a Query
\* is made with a transcript that is not empty and whose last message is
\* neither an assistant nor a system message
C23_TranscriptShape ==
    [][/\ OneSystemFirst(context)
       /\ pc' # "failed" => OneSystemFirst(context')
       /\ StepOfTurn =>
            \/ context' = context
            \/ /\ Len(context') = Len(context) + 1
               /\ SubSeq(context', 1, Len(context)) = context
               /\ context'[Len(context')].Role \in {"user", "assistant", "tool"}
       /\ turn'.queries = turn.queries + 1 =>
            /\ context # <<>>
            /\ context[Len(context)].Role \notin {"assistant", "system"}]_vars

\* the second run, started from what the first has saved after a turn, has
\* a Query under way
C23_Witness ==
    /\ run.n = 2
    /\ run.how = "exited"
    /\ Len(context) >= 4
    /\ pc = "query1"
----------------------------------------------------------------------------
(* What Process makes of a reply: shouldUseTool, detectToolName and        *)
(* extractToolInput.                                                       *)

\* sub occurs in s, at some offset
OccursIn(sub, s) ==
    \E i \in 1..(Len(s) - Len(sub) + 1) : SubSeq(s, i, i + Len(sub) - 1) = sub

\* the registered tools whose lowercased name occurs in the lowercased reply
NamesOccurring(reply) ==
    {toolName \in ToolNames : OccursIn(ToLower(toolName), ToLower(reply))}

\* the first Query of the turn has returned a reply, and shouldUseTool has
\* judged it
ReplyJudged == turn.queries >= 1 /\ turn.failedAt # "query1"

\* the turn has taken up a tool
ToolTaken == turn.toolName # <<>>

\* the turn has returned the reply and run no tool
NoToolUsed == pc = "idle" /\ turn.status = "returned" /\ turn.executions = 0

\* C16 as stated: a tool is taken up if and only if the lowercased reply
\* contains the lowercased name of a registered tool, or the reply itself
\* contains both "use the" and "tool"; otherwise the turn uses no tool
C16_ToolNeedPhraseAsWritten ==
    ReplyJudged =>
        /\ ToolTaken <=> \/ NamesOccurring(turn.reply) # {}
                         \/ OccursIn(S_use_the, turn.reply) /\ OccursIn(S_tool, turn.reply)
        /\ ~ToolTaken => NoToolUsed

\* C16, amended: a tool is taken up if and only if the lowercased reply
\* contains the lowercased name of a registered tool, or the lowercased
\* reply contains both "use the" and "tool"; otherwise the turn uses no tool
C16_ToolNeedDetection ==
    ReplyJudged =>
        /\ ToolTaken <=> \/ NamesOccurring(turn.reply) # {}
                         \/ /\ OccursIn(S_use_the, ToLower(turn.reply))
                            /\ OccursIn(S_tool, ToLower(turn.reply))
        /\ ~ToolTaken => NoToolUsed

\* a reply with the phrases in capitals and no tool's name has been judged
\* to need a tool
C16_Witness ==
    /\ ReplyJudged
    /\ turn.reply = R_UseTheToolCapitals
    /\ NamesOccurring(turn.reply) = {}
    /\ ToolTaken

OpenBraces(reply) == {i \in 1..Len(reply) : reply[i] = "{"}
CloseBraces(reply) == {i \in 1..Len(reply) : reply[i] = "}"}

\* the reply has a '{' and, after the first of them, a '}'
HasSpan(reply) == \E i \in OpenBraces(reply) : \E j \in CloseBraces(reply) : i < j

\* the reply from its first '{' to its last '}', both included
Span(reply) ==
    LET first == CHOOSE i \in OpenBraces(reply) : \A k \in OpenBraces(reply) : i <= k
        last == CHOOSE j \in CloseBraces(reply) : \A k \in CloseBraces(reply) : k <= j
    IN  SubSeq(reply, first, last)

\* the turn has failed at the tool with the error given
TurnAbortedWith(t, err) ==
    /\ t.status = "failed"
    /\ t.failedAt = "tool"
    /\ t.err = S_ToolExecutionError \o err

\* C18: the step that runs file_edit runs it on the span of the reply from
\* its first '{' to its last '}'; where the reply has no such span, the
\* payload passed in its place is well-formed JSON, the tool fails on it
\* with "file_path is required", the turn aborts with that error and the
\* files stay as they were
C18_FileEditInputExtraction ==
    [][(pc = "tool" /\ turn.toolName = S_file_edit) =>
          IF HasSpan(turn.reply)
          THEN LET result == FileEditExecute(files, Span(turn.reply)) IN
               /\ files' = result.fs
               /\ IF result.ok
                  THEN pc' = "query2" /\ turn'.toolOut = result.out
                  ELSE pc' = "idle" /\ TurnAbortedWith(turn', result.err)
          ELSE /\ ParseRequest(S_ExtractFailure).ok
               /\ pc' = "idle"
               /\ TurnAbortedWith(turn', S_ErrFilePathRequired)
               /\ files' = files]_vars

\* a turn that took file_edit for a reply without a span has aborted with
\* "file_path is required" and the files are those of the start
C18_Witness ==
    /\ ToolTaken
    /\ turn.toolName = S_file_edit
    /\ ~HasSpan(turn.reply)
    /\ pc = "idle"
    /\ TurnAbortedWith(turn, S_ErrFilePathRequired)
    /\ files = AgentFileSystem

\* the offsets at which the reply holds the name, in whatever case
NameOffsets(name, reply) ==
    {i \in 1..(Len(reply) - Len(name) + 1) :
        ToLower(SubSeq(reply, i, i + Len(name) - 1)) = ToLower(name)}

\* the text of the reply after the first occurrence of the name
AfterName(name, reply) ==
    LET first == CHOOSE i \in NameOffsets(name, reply) :
                     \A k \in NameOffsets(name, reply) : i <= k
    IN  SubSeq(reply, first + Len(name), Len(reply))

Fillers == {S_tool, S_to, S_with, S_for, S_using, S_use, S_the, S_colon}

\* what web_search says it has been given: its output without the words
\* around the input
SearchedFor(output) ==
    SubSeq(output, Len(S_MockSearchResults) + 1, Len(output) - Len(S_MockSearchResultsEnd))

\* C19, for web_search, whose output repeats its input: the step that runs
\* the tool on a reply holding its name returns, the tool has been given
\* the text after the first occurrence of the name with the fillers removed
\* and the whitespace around it trimmed, and that input holds none of the
\* fillers and neither starts nor ends with whitespace
C19_InputHasNoFiller ==
    [][(/\ pc = "tool"
        /\ turn.toolName = S_web_search
        /\ NameOffsets(S_web_search, turn.reply) # {}) =>
          /\ pc' = "query2"
          /\ LET given == SearchedFor(turn'.toolOut) IN
             /\ given = TrimSpace(RemovePhrases(AfterName(S_web_search, turn.reply), Phrases))
             /\ \A filler \in Fillers : ~OccursIn(filler, given)
             /\ given # <<>> => given[1] \notin Space /\ given[Len(given)] \notin Space]_vars

\* the turn has aborted with "tool execution error: tool ... not found"
ToolNotFoundAbort ==
    /\ turn.status = "failed"
    /\ turn.failedAt = "tool"
    /\ HasPrefix(turn.err, S_ToolExecutionError \o S_ErrToolNotFoundPrefix)
    /\ HasSuffix(turn.err, S_ErrToolNotFoundSuffix)

\* C22: the name a turn hands to executeTool is a key of the registry, so
\* the lookup finds the tool, every abort at the tool is one of a tool that
\* has run, and no turn aborts with "tool ... not found"
C22_ToolNotFoundUnreachable ==
    /\ ToolTaken => turn.toolName \in ToolNames
    /\ (turn.status = "failed" /\ turn.failedAt = "tool") => turn.executions = 1
    /\ ~ToolNotFoundAbort

\* a reply without a tool's name has had web_search looked up and run
C22_Witness ==
    /\ ToolTaken
    /\ NamesOccurring(turn.reply) = {}
    /\ turn.toolName = S_web_search
    /\ turn.executions = 1
    /\ pc = "query2"

====
